---- MODULE Spec2Model ----
(***************************************************************************)
(* Model of wsdl_parser/wsdl_parser.py: the WSDL extractor (WSDLParser),   *)
(* the anchor generator, the link resolver and the two renderers.          *)
(*                                                                         *)
(* Strings are sequences of one-character strings.  A rendered output is   *)
(* a sequence of tokens: the literal chunks of the source's f-strings      *)
(* (multi-character strings such as MSG_OPEN) and, between them, the       *)
(* characters of the interpolated values.  Concatenating the tokens gives  *)
(* the program's output string; the alphabet of the interpolated values    *)
(* holds no HTML metacharacter, so the token view loses nothing.           *)
(***************************************************************************)
EXTENDS Integers, Sequences, FiniteSets, TLC

VARIABLES
    pc,            \* position of the caller (main, or the function called directly)
    name,          \* _make_anchor_id / _make_link_if_exists: argument name
    targets,       \* _make_link_if_exists: argument targets
    prefix,        \* argument prefix
    display_text,  \* _make_link_if_exists: argument display_text
    result,        \* value returned by the function called last
    root,          \* WSDLParser.root: the loaded document tree
    data,          \* the dict returned by WSDLParser.parse
    html,          \* the string returned by generate_html_output
    text,          \* the lines joined by format_text_output
    previous,      \* what the renderer returned when it was called before
    wsdl_source,   \* WSDLParser.wsdl_source: the kind of source named by args.wsdl
    args,          \* main: args.format and whether args.output is given
    attempt,       \* load_wsdl: the loop variable of the retry loop
    last_error,    \* load_wsdl: last_error
    events,        \* the calls made so far to the network, the clock, the
                   \* extraction passes, the renderers and the output
    ret,           \* what load_wsdl has returned
    exit_status,   \* the exit status of main
    written,       \* the output file has been written
    target_namespace, \* WSDLParser.target_namespace
    outcomes,      \* how each attempt to obtain the document has ended
    orders,        \* the committed rows of table orders, as any session reads them
    pending,       \* the rows of orders as the open session's transaction has them
    seq,           \* the next value of the sequence behind orders.order_id
    call,          \* the function of services.sqlalchemy_sample being run
    session_calls, \* the calls made on the session of session_scope, and the
                   \* exception the with-body raised
    raised,        \* the exception leaving the with block
    orders_before, \* the committed rows of orders when the function was called
    log_buffer,    \* FuncRunner._log_buffer: the lines held, oldest first
    lock,          \* FuncRunner._lock: the thread that holds it
    reader,        \* the thread running _read_stdout: its position and its line
    stdout,        \* the lines read from proc.stdout so far
    it,            \* start: the iterator over _log_buffer of the current poll
    polls,         \* start: the polls completed
    lines,         \* get_log_lines / get_and_clear_log_lines: the local copy
    lines_returned, \* the lists get_and_clear_log_lines has returned, joined
    evicted        \* the lines the full deque has discarded on append

loaderVars == <<wsdl_source, args, attempt, last_error, events, ret, exit_status, written,
                target_namespace, outcomes>>

dbVars == <<orders, pending, seq, call, session_calls, raised, orders_before>>

\* The variables of the WSDL parser.
wsdlVars == <<name, targets, prefix, display_text, result, root, data, html, text,
              previous, loaderVars>>

runnerVars == <<log_buffer, lock, reader, stdout, it, polls, lines, lines_returned,
                evicted>>

\* The variables outside the WSDL parser.
restVars == <<dbVars, runnerVars>>

vars == <<pc, name, targets, prefix, display_text, result, root, data, html, text,
          previous,
          wsdl_source, args, attempt, last_error, events, ret, exit_status, written,
          target_namespace, outcomes, orders, pending, seq, call, session_calls,
          raised, orders_before, log_buffer, lock, reader, stdout, it, polls, lines,
          lines_returned, evicted>>

(***************************************************************************)
(* Bounds                                                                  *)
(***************************************************************************)
MaxNameLen == 3
MaxAddresses == 2
MaxBindings == 2
MaxMessages == 2
MaxTypes == 2
MaxTopLevel == 2
MaxOrderId == 2
\* The lines the process writes, and the buffer_size given to FuncRunner.
MaxLines == 3
BufferSize == 2

(***************************************************************************)
(* Numbers of the program                                                  *)
(***************************************************************************)
MaxRetries == 3
GET_TIMEOUT == 30
SLEEP_SECONDS == 1
\* exit_status while main has not exited.
Running == -1
\* for _ in range(300)
POLLS == 300

(***************************************************************************)
(* Strings                                                                 *)
(***************************************************************************)
Char == {":", " ", ".", "_", "a", "A"}

Strings(n) == UNION {[1..k -> Char] : k \in 0..n}

\* Python's None where a str is expected (a token no string holds).
NoneStr == <<"None">>

\* Python truthiness of an Optional[str].
Truthy(s) == s # NoneStr /\ s # <<>>

\* str.replace(old, new) for one-character old and new.
Replace(s, old, new) == [i \in 1..Len(s) |-> IF s[i] = old THEN new ELSE s[i]]

(***************************************************************************)
(* Anchor generator and link resolver                                      *)
(***************************************************************************)
PREFIX_MSG == <<"msg">>
PREFIX_TYPE == <<"type">>

A_HREF == "<a href=\"#"

\* Mutant: the '.' replacement is missing.
MakeAnchorId_NoDot(p, n) ==
    p \o <<"_">> \o Replace(Replace(n, ":", "_"), " ", "_")

_make_anchor_id(p, n) ==
    LET safe_name == Replace(Replace(Replace(n, ":", "_"), " ", "_"), ".", "_")
    IN  p \o <<"_">> \o safe_name

\* Mutant: the emptiness test of name is missing.
MakeLinkIfExists_NoEmptyTest(n, tg, p, dt) ==
    LET txt == IF Truthy(dt) THEN dt ELSE (IF Truthy(n) THEN n ELSE <<>>)
    IN  IF n \in tg
        THEN <<A_HREF>> \o _make_anchor_id(p, n) \o <<"\" class=\"ref-link\">">> \o txt \o <<"</a>">>
        ELSE txt

_make_link_if_exists(n, tg, p, dt) ==
    LET txt == IF Truthy(dt) THEN dt ELSE (IF Truthy(n) THEN n ELSE <<>>)
    IN  IF Truthy(n) /\ n \in tg
        THEN <<A_HREF>> \o _make_anchor_id(p, n) \o <<"\" class=\"ref-link\">">> \o txt \o <<"</a>">>
        ELSE txt

(***************************************************************************)
(* The document tree (lxml elements) and the XPath queries the parser uses *)
(***************************************************************************)
NoAttrs == [a \in {} |-> <<>>]

\* An element: tag, attributes (a function from the names of the attributes
\* present to their values), child elements in document order, text.
Elem(tag, attrs, kids) == [tag |-> tag, attrs |-> attrs, kids |-> kids, text |-> NoneStr]
TextElem(tag, txt) == [tag |-> tag, attrs |-> NoAttrs, kids |-> <<>>, text |-> txt]

\* element.get(a): None when the attribute is absent.
Get(e, a) == IF a \in DOMAIN e.attrs THEN e.attrs[a] ELSE NoneStr
\* element.get(a, default)
GetD(e, a, default) == IF a \in DOMAIN e.attrs THEN e.attrs[a] ELSE default

RECURSIVE DescFrom(_, _)
\* The descendants of a list of siblings from position i on, in document order.
DescFrom(kids, i) ==
    IF i > Len(kids) THEN <<>>
    ELSE <<kids[i]>> \o DescFrom(kids[i].kids, 1) \o DescFrom(kids, i + 1)

\* e.xpath(".//tag")
XPathDesc(e, tag) == SelectSeq(DescFrom(e.kids, 1), LAMBDA n : n.tag = tag)
\* e.xpath("./tag")
XPathChild(e, tag) == SelectSeq(e.kids, LAMBDA n : n.tag = tag)

RECURSIVE Flatten(_)
Flatten(ss) == IF ss = <<>> THEN <<>> ELSE Head(ss) \o Flatten(Tail(ss))

\* The absent document: WSDLParser.root is None.
NoRoot == [tag |-> "None", attrs |-> NoAttrs, kids |-> <<>>, text |-> NoneStr]

\* self._get_elements("//tag"): every element of the document with that tag.
_get_elements(r, tag) ==
    IF r = NoRoot THEN <<>>
    ELSE SelectSeq(<<r>> \o DescFrom(r.kids, 1), LAMBDA n : n.tag = tag)

\* self._get_elements("//wsdl:types/xsd:schema")
GetSchemas(r) ==
    LET ts == _get_elements(r, "wsdl:types")
    IN  Flatten([i \in 1..Len(ts) |-> XPathChild(ts[i], "xsd:schema")])

(***************************************************************************)
(* WSDLParser                                                              *)
(***************************************************************************)
HasColon(s) == \E i \in 1..Len(s) : s[i] = ":"
LastColon(s) == CHOOSE i \in 1..Len(s) : s[i] = ":" /\ \A j \in (i+1)..Len(s) : s[j] # ":"

\* Mutant: keeps the text before the first ':' instead of after the last.
StripNamespace_First(qname) ==
    IF Truthy(qname) /\ HasColon(qname)
    THEN SubSeq(qname, 1, (CHOOSE i \in 1..Len(qname) :
                    qname[i] = ":" /\ \A j \in 1..(i-1) : qname[j] # ":") - 1)
    ELSE IF Truthy(qname) THEN qname ELSE <<>>

\* Mutant: a falsy argument is returned as it is, None included.
StripNamespace_NoneKept(qname) ==
    IF Truthy(qname) /\ HasColon(qname)
    THEN SubSeq(qname, LastColon(qname) + 1, Len(qname))
    ELSE qname

_strip_namespace(qname) ==
    IF Truthy(qname) /\ HasColon(qname)
    THEN SubSeq(qname, LastColon(qname) + 1, Len(qname))
    ELSE IF Truthy(qname) THEN qname ELSE <<>>

RECURSIVE LStrip(_)
LStrip(s) == IF s # <<>> /\ Head(s) = " " THEN LStrip(Tail(s)) ELSE s
RECURSIVE RStrip(_)
RStrip(s) == IF s # <<>> /\ s[Len(s)] = " " THEN RStrip(SubSeq(s, 1, Len(s) - 1)) ELSE s
\* str.strip()
Strip(s) == RStrip(LStrip(s))

\* The address set by one query: unchanged when the query matches nothing.
SetAddress(port, tag, address) ==
    LET found == XPathDesc(port, tag)
    IN  IF found # <<>> THEN GetD(found[1], "location", <<>>) ELSE address

\* Mutant: SOAP 1.2 is queried first, so SOAP 1.1 overwrites it.
ParsePort_Soap11Wins(port) ==
    [name    |-> Get(port, "name"),
     binding |-> _strip_namespace(Get(port, "binding")),
     address |-> SetAddress(port, "soap:address",
                            SetAddress(port, "soap12:address", <<>>))]

ParsePort(port) ==
    [name    |-> Get(port, "name"),
     binding |-> _strip_namespace(Get(port, "binding")),
     address |-> SetAddress(port, "soap12:address",
                            SetAddress(port, "soap:address", <<>>))]

parse_services(r) ==
    LET services == _get_elements(r, "wsdl:service")
        ServiceInfo(service) ==
            LET ports == XPathDesc(service, "wsdl:port")
            IN  [name  |-> Get(service, "name"),
                 ports |-> [j \in 1..Len(ports) |-> ParsePort(ports[j])]]
    IN  [i \in 1..Len(services) |-> ServiceInfo(services[i])]

ParseBindingOperation(operation) ==
    LET soap_op == XPathDesc(operation, "soap:operation")
    IN  [name       |-> Get(operation, "name"),
         soapAction |-> IF soap_op # <<>>
                        THEN GetD(soap_op[1], "soapAction", <<>>)
                        ELSE <<>>]

\* Mutant: a soap:binding without a style attribute gives the empty style.
ParseBinding_StyleDefaultEmpty(binding) ==
    LET soap_binding == XPathDesc(binding, "soap:binding")
        operations == XPathDesc(binding, "wsdl:operation")
    IN  [name       |-> Get(binding, "name"),
         type       |-> _strip_namespace(Get(binding, "type")),
         style      |-> IF soap_binding # <<>>
                        THEN GetD(soap_binding[1], "style", <<>>)
                        ELSE <<>>,
         transport  |-> IF soap_binding # <<>>
                        THEN GetD(soap_binding[1], "transport", <<>>)
                        ELSE <<>>,
         operations |-> [j \in 1..Len(operations) |->
                             ParseBindingOperation(operations[j])]]

\* binding_info for one wsdl:binding element.
ParseBinding(binding) ==
    LET soap_binding == XPathDesc(binding, "soap:binding")
        operations == XPathDesc(binding, "wsdl:operation")
    IN  [name       |-> Get(binding, "name"),
         type       |-> _strip_namespace(Get(binding, "type")),
         style      |-> IF soap_binding # <<>>
                        THEN GetD(soap_binding[1], "style",
                                  <<"d","o","c","u","m","e","n","t">>)
                        ELSE <<>>,
         transport  |-> IF soap_binding # <<>>
                        THEN GetD(soap_binding[1], "transport", <<>>)
                        ELSE <<>>,
         operations |-> [j \in 1..Len(operations) |->
                             ParseBindingOperation(operations[j])]]

parse_bindings(r) ==
    LET bindings == _get_elements(r, "wsdl:binding")
    IN  [i \in 1..Len(bindings) |-> ParseBinding(bindings[i])]

ParseOperation(operation) ==
    LET doc == XPathDesc(operation, "wsdl:documentation")
        input_elem == XPathDesc(operation, "wsdl:input")
        output_elem == XPathDesc(operation, "wsdl:output")
    IN  [name          |-> Get(operation, "name"),
         documentation |-> IF doc # <<>> /\ Truthy(doc[1].text)
                           THEN Strip(doc[1].text) ELSE <<>>,
         input         |-> IF input_elem # <<>>
                           THEN _strip_namespace(GetD(input_elem[1], "message", <<>>))
                           ELSE <<>>,
         output        |-> IF output_elem # <<>>
                           THEN _strip_namespace(GetD(output_elem[1], "message", <<>>))
                           ELSE <<>>]

parse_port_types(r) ==
    LET port_types == _get_elements(r, "wsdl:portType")
        PtInfo(port_type) ==
            LET operations == XPathDesc(port_type, "wsdl:operation")
            IN  [name       |-> Get(port_type, "name"),
                 operations |-> [j \in 1..Len(operations) |->
                                     ParseOperation(operations[j])]]
    IN  [i \in 1..Len(port_types) |-> PtInfo(port_types[i])]

\* Mutant: the type reference is dropped when an element reference is given.
ParsePart_ElementWins(part) ==
    [name    |-> Get(part, "name"),
     element |-> _strip_namespace(GetD(part, "element", <<>>)),
     type    |-> IF _strip_namespace(GetD(part, "element", <<>>)) # <<>> THEN <<>>
                 ELSE _strip_namespace(GetD(part, "type", <<>>))]

ParsePart(part) ==
    [name    |-> Get(part, "name"),
     element |-> _strip_namespace(GetD(part, "element", <<>>)),
     type    |-> _strip_namespace(GetD(part, "type", <<>>))]

parse_messages(r) ==
    LET messages == _get_elements(r, "wsdl:message")
        MsgInfo(message) ==
            LET parts == XPathDesc(message, "wsdl:part")
            IN  [name  |-> Get(message, "name"),
                 parts |-> [j \in 1..Len(parts) |-> ParsePart(parts[j])]]
    IN  [i \in 1..Len(messages) |-> MsgInfo(messages[i])]

_get_documentation(element) ==
    LET anns == XPathChild(element, "xsd:annotation")
        doc_result == Flatten([i \in 1..Len(anns) |->
                                   XPathChild(anns[i], "xsd:documentation")])
    IN  IF doc_result # <<>> /\ Truthy(doc_result[1].text)
        THEN Strip(doc_result[1].text) ELSE <<>>

\* Mutant: minOccurs defaults to "0".
ParseField_MinOccursZero(element) ==
    [name          |-> Get(element, "name"),
     type          |-> _strip_namespace(GetD(element, "type", <<>>)),
     minOccurs     |-> GetD(element, "minOccurs", <<"0">>),
     maxOccurs     |-> GetD(element, "maxOccurs", <<"1">>),
     nillable      |-> GetD(element, "nillable", <<"f","a","l","s","e">>),
     documentation |-> _get_documentation(element)]

\* The field dict built for one xsd:element of a complex type.
ParseField(element) ==
    [name          |-> Get(element, "name"),
     type          |-> _strip_namespace(GetD(element, "type", <<>>)),
     minOccurs     |-> GetD(element, "minOccurs", <<"1">>),
     maxOccurs     |-> GetD(element, "maxOccurs", <<"1">>),
     nillable      |-> GetD(element, "nillable", <<"f","a","l","s","e">>),
     documentation |-> _get_documentation(element)]

ParseFields(ctype) ==
    LET elements == XPathDesc(ctype, "xsd:element")
    IN  [j \in 1..Len(elements) |-> ParseField(elements[j])]

\* The entry for a named complexType.
ParseNamedComplexType(complex_type) ==
    [name          |-> Get(complex_type, "name"),
     type          |-> "complexType",
     documentation |-> _get_documentation(complex_type),
     elements      |-> ParseFields(complex_type)]

\* Mutant: only the element declarations one level below the children of the
\* nested complex type become fields.
ParseTopLevelElement_ShallowFields(element) ==
    LET elem_doc == _get_documentation(element)
        inner_complex == XPathChild(element, "xsd:complexType")
        shallow == XPathChild(inner_complex[1], "xsd:element")
                   \o Flatten([k \in 1..Len(inner_complex[1].kids) |->
                                   XPathChild(inner_complex[1].kids[k], "xsd:element")])
    IN  IF inner_complex # <<>>
        THEN [name          |-> Get(element, "name"),
              type          |-> "complexType",
              documentation |-> IF Truthy(elem_doc) THEN elem_doc
                                ELSE _get_documentation(inner_complex[1]),
              elements      |-> [j \in 1..Len(shallow) |-> ParseField(shallow[j])]]
        ELSE [name          |-> Get(element, "name"),
              type          |-> "element",
              dataType      |-> _strip_namespace(GetD(element, "type", <<>>)),
              documentation |-> elem_doc]

\* The entry for an element directly under the schema (its name is truthy).
ParseTopLevelElement(element) ==
    LET elem_doc == _get_documentation(element)
        inner_complex == XPathChild(element, "xsd:complexType")
    IN  IF inner_complex # <<>>
        THEN [name          |-> Get(element, "name"),
              type          |-> "complexType",
              documentation |-> IF Truthy(elem_doc) THEN elem_doc
                                ELSE _get_documentation(inner_complex[1]),
              elements      |-> ParseFields(inner_complex[1])]
        ELSE [name          |-> Get(element, "name"),
              type          |-> "element",
              dataType      |-> _strip_namespace(GetD(element, "type", <<>>)),
              documentation |-> elem_doc]

\* Mutant: a complexType whose name attribute is empty is passed over.
ParseSchema_NonEmptyNamesOnly(schema) ==
    LET named == SelectSeq(XPathDesc(schema, "xsd:complexType"),
                           LAMBDA n : Truthy(Get(n, "name")))
        tops == SelectSeq(XPathChild(schema, "xsd:element"),
                          LAMBDA n : Truthy(Get(n, "name")))
    IN  [i \in 1..Len(named) |-> ParseNamedComplexType(named[i])]
        \o [i \in 1..Len(tops) |-> ParseTopLevelElement(tops[i])]

\* Mutant: the top-level elements are entered before the named complex types.
ParseSchema_ElementsFirst(schema) ==
    LET named == SelectSeq(XPathDesc(schema, "xsd:complexType"),
                           LAMBDA n : "name" \in DOMAIN n.attrs)
        tops == SelectSeq(XPathChild(schema, "xsd:element"),
                          LAMBDA n : Truthy(Get(n, "name")))
    IN  [i \in 1..Len(tops) |-> ParseTopLevelElement(tops[i])]
        \o [i \in 1..Len(named) |-> ParseNamedComplexType(named[i])]

ParseSchema(schema) ==
    LET named == SelectSeq(XPathDesc(schema, "xsd:complexType"),
                           LAMBDA n : "name" \in DOMAIN n.attrs)
        tops == SelectSeq(XPathChild(schema, "xsd:element"),
                          LAMBDA n : Truthy(Get(n, "name")))
    IN  [i \in 1..Len(named) |-> ParseNamedComplexType(named[i])]
        \o [i \in 1..Len(tops) |-> ParseTopLevelElement(tops[i])]

parse_types(r) ==
    LET schemas == GetSchemas(r)
    IN  Flatten([i \in 1..Len(schemas) |-> ParseSchema(schemas[i])])

\* The dict parse() returns once load_wsdl has succeeded.
ParseData(r) ==
    [target_namespace |-> GetD(r, "targetNamespace", <<>>),
     services   |-> parse_services(r),
     bindings   |-> parse_bindings(r),
     port_types |-> parse_port_types(r),
     messages   |-> parse_messages(r),
     types      |-> parse_types(r)]

(***************************************************************************)
(* generate_html_output                                                    *)
(* The literal chunks of the f-strings; labels are given in ASCII.         *)
(***************************************************************************)
SEC_MESSAGES == "<div class=\"section\" id=\"section-messages\"><h2>Messages</h2>"
SEC_TYPES == "<div class=\"section\" id=\"section-types\"><h2>Types</h2>"
DIV_CLOSE == "</div>"
H4_CLOSE == "</h4>"
SPAN_P_CLOSE == "</span></p>"
SOAP_OPEN == "<p><span class='label'>SOAPAction:</span> <span class='value'>"
MSG_OPEN == "<div class=\"message\" id=\""
ID_CLOSE == "\"><h4>"
TYPE_OPEN == "<div class=\"type\" id=\""

\* message_names = {msg["name"] for msg in data["messages"]}
MessageNames(d) == {d.messages[i].name : i \in 1..Len(d.messages)}

\* type_names: the truthy names of data["types"]
TypeNames(d) ==
    {d.types[i].name : i \in {j \in 1..Len(d.types) : Truthy(d.types[j].name)}}

\* Mutant: the binding's type is not compared with the port type's name.
MatchingSoapActions_AnyBinding(d, pt, op) ==
    LET OfBinding(binding) ==
            LET hits == SelectSeq(binding.operations,
                            LAMBDA bind_op : bind_op.name = op.name
                                             /\ Truthy(bind_op.soapAction))
            IN  [k \in 1..Len(hits) |-> hits[k].soapAction]
    IN  Flatten([i \in 1..Len(d.bindings) |-> OfBinding(d.bindings[i])])

\* The soapAction values the loops over data["bindings"] and
\* binding["operations"] meet for operation op of port type pt, in loop order.
MatchingSoapActions(d, pt, op) ==
    LET OfBinding(binding) ==
            IF binding.type = pt.name
            THEN LET hits == SelectSeq(binding.operations,
                                 LAMBDA bind_op : bind_op.name = op.name
                                                  /\ Truthy(bind_op.soapAction))
                 IN  [k \in 1..Len(hits) |-> hits[k].soapAction]
            ELSE <<>>
    IN  Flatten([i \in 1..Len(d.bindings) |-> OfBinding(d.bindings[i])])

\* Mutant: the search stops at the first match.
HtmlSoapAction_First(d, pt, op) ==
    LET found == MatchingSoapActions(d, pt, op)
    IN  IF found = <<>> THEN <<>> ELSE found[1]

\* soap_action after the loops: every match overwrites the one before.
HtmlSoapAction(d, pt, op) ==
    LET found == MatchingSoapActions(d, pt, op)
    IN  IF found = <<>> THEN <<>> ELSE found[Len(found)]

\* Mutant: message references are looked up among the type names.
HtmlMessageLink_TypeDomain(d, ref) ==
    _make_link_if_exists(ref, TypeNames(d), PREFIX_TYPE, NoneStr)

\* input_link / output_link
HtmlMessageLink(d, ref) ==
    _make_link_if_exists(ref, MessageNames(d), PREFIX_MSG, NoneStr)

\* elem_link / type_link
HtmlTypeLink(d, ref) ==
    _make_link_if_exists(ref, TypeNames(d), PREFIX_TYPE, NoneStr)

HtmlServices(d) ==
    LET PortHtml(port) ==
            <<"<p><span class=\"label\">port:</span> <span class=\"value\">">> \o port.name \o <<SPAN_P_CLOSE>>
            \o <<"<p><span class=\"label\">binding:</span> <span class=\"value\">">> \o port.binding \o <<SPAN_P_CLOSE>>
            \o <<"<p><span class=\"label\">endpoint:</span> <span class=\"value endpoint\">">> \o port.address \o <<SPAN_P_CLOSE>>
        ServiceHtml(service) ==
            <<"<div class=\"service\"><h3>">> \o service.name \o <<"</h3>">>
            \o Flatten([j \in 1..Len(service.ports) |-> PortHtml(service.ports[j])])
            \o <<DIV_CLOSE>>
    IN  <<"<div class=\"section\" id=\"section-services\"><h2>Services</h2>">>
        \o Flatten([i \in 1..Len(d.services) |-> ServiceHtml(d.services[i])])
        \o <<DIV_CLOSE>>

HtmlOperation(d, pt, op) ==
    LET soap_action == HtmlSoapAction(d, pt, op)
        doc_html == IF Truthy(op.documentation)
                    THEN <<"<p><i>">> \o op.documentation \o <<"</i></p>">>
                    ELSE <<>>
        soap_html == IF Truthy(soap_action)
                     THEN <<SOAP_OPEN>> \o soap_action \o <<SPAN_P_CLOSE>>
                     ELSE <<>>
    IN  <<"<div class=\"operation\"><h4>">> \o op.name \o <<H4_CLOSE>>
        \o doc_html
        \o <<"<p><span class=\"badge badge-input\">in</span> ">> \o HtmlMessageLink(d, op.input)
        \o <<"<span class=\"badge badge-output\">out</span> ">> \o HtmlMessageLink(d, op.output)
        \o <<"</p>">>
        \o soap_html
        \o <<DIV_CLOSE>>

HtmlOperations(d) ==
    LET PtHtml(pt) ==
            <<"<h3>">> \o pt.name \o <<"</h3>">>
            \o Flatten([j \in 1..Len(pt.operations) |->
                            HtmlOperation(d, pt, pt.operations[j])])
    IN  <<"<div class=\"section\" id=\"section-operations\"><h2>Operations</h2>">>
        \o Flatten([i \in 1..Len(d.port_types) |-> PtHtml(d.port_types[i])])
        \o <<DIV_CLOSE>>

\* The table row of one message part.
HtmlPart(d, part) ==
    <<"<tr><td>">> \o part.name
    \o (IF Truthy(part.element)
        THEN <<"</td><td>element: ">> \o HtmlTypeLink(d, part.element)
        ELSE <<"</td><td>type: ">> \o HtmlTypeLink(d, part.type))
    \o <<"</td></tr>">>

HtmlMessage(d, msg) ==
    <<MSG_OPEN>> \o _make_anchor_id(PREFIX_MSG, msg.name) \o <<ID_CLOSE>>
    \o msg.name \o <<"</h4><table><tr><th>name</th><th>element/type</th></tr>">>
    \o Flatten([j \in 1..Len(msg.parts) |-> HtmlPart(d, msg.parts[j])])
    \o <<"</table></div>">>

HtmlMessages(d) ==
    <<SEC_MESSAGES>>
    \o Flatten([i \in 1..Len(d.messages) |-> HtmlMessage(d, d.messages[i])])
    \o <<DIV_CLOSE>>

HtmlField(d, elem) ==
    <<"<tr><td>">> \o elem.name
    \o <<"</td><td>">> \o HtmlTypeLink(d, elem.type)
    \o <<"</td><td>">> \o elem.minOccurs \o <<"..">> \o elem.maxOccurs
    \o <<"</td><td>">> \o (IF elem.nillable = <<"t","r","u","e">> THEN <<"(v)">> ELSE <<>>)
    \o <<"</td><td>">> \o elem.documentation
    \o <<"</td></tr>">>

\* Mutant: the simple-element branch emits no id attribute.
HtmlType_ElementWithoutId(d, dtype) ==
    LET doc_html == IF Truthy(dtype.documentation)
                    THEN <<"<p><i>">> \o dtype.documentation \o <<"</i></p>">>
                    ELSE <<>>
    IN  IF dtype.type = "complexType"
        THEN <<TYPE_OPEN>> \o _make_anchor_id(PREFIX_TYPE, dtype.name) \o <<ID_CLOSE>>
             \o dtype.name \o <<H4_CLOSE>>
             \o doc_html
             \o <<"<table><tr><th>field</th><th>type</th><th>occurs</th><th>nullable</th><th>doc</th></tr>">>
             \o Flatten([j \in 1..Len(dtype.elements) |-> HtmlField(d, dtype.elements[j])])
             \o <<"</table></div>">>
        ELSE <<"<div class=\"type\"><h4>">>
             \o dtype.name \o <<H4_CLOSE>>
             \o doc_html
             \o <<"<p><span class=\"label\">dataType:</span> ">>
             \o HtmlTypeLink(d, IF "dataType" \in DOMAIN dtype THEN dtype.dataType ELSE <<>>)
             \o <<"</p></div>">>

HtmlType(d, dtype) ==
    LET doc_html == IF Truthy(dtype.documentation)
                    THEN <<"<p><i>">> \o dtype.documentation \o <<"</i></p>">>
                    ELSE <<>>
    IN  IF dtype.type = "complexType"
        THEN <<TYPE_OPEN>> \o _make_anchor_id(PREFIX_TYPE, dtype.name) \o <<ID_CLOSE>>
             \o dtype.name \o <<H4_CLOSE>>
             \o doc_html
             \o <<"<table><tr><th>field</th><th>type</th><th>occurs</th><th>nullable</th><th>doc</th></tr>">>
             \o Flatten([j \in 1..Len(dtype.elements) |-> HtmlField(d, dtype.elements[j])])
             \o <<"</table></div>">>
        ELSE <<TYPE_OPEN>> \o _make_anchor_id(PREFIX_TYPE, dtype.name) \o <<ID_CLOSE>>
             \o dtype.name \o <<H4_CLOSE>>
             \o doc_html
             \o <<"<p><span class=\"label\">dataType:</span> ">>
             \o HtmlTypeLink(d, IF "dataType" \in DOMAIN dtype THEN dtype.dataType ELSE <<>>)
             \o <<"</p></div>">>

\* The types section: opened only for a non-empty list, closed in any case.
HtmlTypes(d) ==
    (IF d.types # <<>>
     THEN <<SEC_TYPES>>
          \o Flatten([i \in 1..Len(d.types) |-> HtmlType(d, d.types[i])])
     ELSE <<>>)
    \o <<DIV_CLOSE>>

generate_html_output(d) ==
    <<"<!DOCTYPE html><html><head><style>...</style></head><body><div class=\"container\"><h1>WSDL</h1><p><span class=\"label\">targetNamespace:</span> <span class=\"value\">">> \o d.target_namespace \o <<"</span></p>">>
    \o <<"<div class=\"toc\"><h3>TOC</h3><ul>", "<li><a href=\"#section-services\">Services</a></li>", "<li><a href=\"#section-operations\">Operations</a></li>", "<li><a href=\"#section-messages\">Messages</a></li>", "<li><a href=\"#section-types\">Types</a></li>", "</ul></div>">>
    \o HtmlServices(d)
    \o HtmlOperations(d)
    \o HtmlMessages(d)
    \o HtmlTypes(d)
    \o <<"</div></body></html>">>

(***************************************************************************)
(* format_text_output: the list of lines that join receives                  *)
(***************************************************************************)
NL_RULE == "\n================"

\* The SOAPAction lines of one operation: one per match, none skipped.
TextSoapActionLines(d, pt, op) ==
    LET found == MatchingSoapActions(d, pt, op)
    IN  [k \in 1..Len(found) |-> <<"    SOAPAction: ">> \o found[k]]

TextOperation(d, pt, op) ==
    << <<"\n  o ">> \o op.name >>
    \o (IF Truthy(op.documentation)
        THEN << <<"    doc: ">> \o op.documentation >> ELSE <<>>)
    \o << <<"    in: ">> \o op.input, <<"    out: ">> \o op.output >>
    \o TextSoapActionLines(d, pt, op)

TextServices(d) ==
    LET PortLines(port) ==
            << <<"  |- port: ">> \o port.name,
               <<"  |  |- binding: ">> \o port.binding,
               <<"  |  |- endpoint: ">> \o port.address >>
        ServiceLines(service) ==
            << <<"\n[service] ">> \o service.name >>
            \o Flatten([j \in 1..Len(service.ports) |-> PortLines(service.ports[j])])
    IN  Flatten([i \in 1..Len(d.services) |-> ServiceLines(d.services[i])])

TextOperations(d) ==
    LET PtLines(pt) ==
            << <<"\n[portType] ">> \o pt.name >>
            \o Flatten([j \in 1..Len(pt.operations) |->
                            TextOperation(d, pt, pt.operations[j])])
    IN  Flatten([i \in 1..Len(d.port_types) |-> PtLines(d.port_types[i])])

TextMessages(d) ==
    LET PartLines(part) ==
            IF Truthy(part.element)
            THEN << <<"  |- ">> \o part.name \o <<" (element: ">> \o part.element \o <<")">> >>
            ELSE IF Truthy(part.type)
            THEN << <<"  |- ">> \o part.name \o <<" (type: ">> \o part.type \o <<")">> >>
            ELSE <<>>
        MsgLines(msg) ==
            << <<"\n[message] ">> \o msg.name >>
            \o Flatten([j \in 1..Len(msg.parts) |-> PartLines(msg.parts[j])])
    IN  Flatten([i \in 1..Len(d.messages) |-> MsgLines(d.messages[i])])

TextTypes(d) ==
    LET FieldLine(elem) ==
            <<"  |- ">> \o elem.name \o <<": ">> \o elem.type
            \o <<" [">> \o elem.minOccurs \o <<"..">> \o elem.maxOccurs
            \o <<"]">>
            \o (IF elem.nillable = <<"t","r","u","e">> THEN <<" (nullable)">> ELSE <<>>)
            \o (IF Truthy(elem.documentation)
                THEN <<" - ">> \o elem.documentation ELSE <<>>)
        TypeLines(dtype) ==
            IF dtype.type = "complexType"
            THEN << <<"\n[complexType] ">> \o dtype.name >>
                 \o (IF Truthy(dtype.documentation)
                     THEN << <<"    doc: ">> \o dtype.documentation >> ELSE <<>>)
                 \o [j \in 1..Len(dtype.elements) |-> FieldLine(dtype.elements[j])]
            ELSE << <<"\n[element] ">> \o dtype.name \o <<" : ">> \o dtype.dataType
                    \o (IF Truthy(dtype.documentation)
                        THEN <<"\n    doc: ">> \o dtype.documentation ELSE <<>>) >>
    IN  IF d.types # <<>>
        THEN << <<NL_RULE>>, <<"Types">>, <<"================">> >>
             \o Flatten([i \in 1..Len(d.types) |-> TypeLines(d.types[i])])
        ELSE <<>>

format_text_output(d) ==
    << <<"================">>, <<"WSDL">>, <<"================">>, <<"\ntargetNamespace: ">> \o d.target_namespace \o <<"\n">> >>
    \o << <<NL_RULE>>, <<"Services">>, <<"================">> >>
    \o TextServices(d)
    \o << <<NL_RULE>>, <<"Operations">>, <<"================">> >>
    \o TextOperations(d)
    \o << <<NL_RULE>>, <<"Messages">>, <<"================">> >>
    \o TextMessages(d)
    \o TextTypes(d)
    \o << <<NL_RULE>> >>

(***************************************************************************)
(* Documents the loader can hand to the parser                             *)
(***************************************************************************)
SeqsUpTo(pool, n) == UNION {[1..k -> pool] : k \in 0..n}

Definitions(kids) ==
    Elem("wsdl:definitions", [targetNamespace |-> <<"a", ".", "A">>], kids)

\* --- services: one port whose address children vary ----------------------
AddressPool ==
    { Elem("soap:address", [location |-> <<"a">>], <<>>),
      Elem("soap:address", NoAttrs, <<>>),
      Elem("soap12:address", [location |-> <<"A">>], <<>>),
      Elem("soap12:address", NoAttrs, <<>>) }

PortPool ==
    { Elem("wsdl:port", attrs, kids) :
        attrs \in { [name |-> <<"a">>, binding |-> <<"a", ":", "A">>],
                    [name |-> <<"a">>] },
        kids \in SeqsUpTo(AddressPool, MaxAddresses) }

FixedPort ==
    Elem("wsdl:port", [name |-> <<"A">>, binding |-> <<"A">>],
         << Elem("soap:address", [location |-> <<"_">>], <<>>) >>)

ServiceDocs ==
    { Definitions(<< Elem("wsdl:service", [name |-> <<"a">>], ports) >>) :
        ports \in UNION { {<<p>>, <<p, FixedPort>>, <<FixedPort, p>>} : p \in PortPool } }

\* --- port types -----------------------------------------------------------
\* Operation a: input a, output A.  Operation A: output a_a, no input.
FixedPortType ==
    Elem("wsdl:portType", [name |-> <<"a">>],
         << Elem("wsdl:operation", [name |-> <<"a">>],
                 << TextElem("wsdl:documentation", <<" ", "a", " ">>),
                    Elem("wsdl:input", [message |-> <<"a", ":", "a">>], <<>>),
                    Elem("wsdl:output", [message |-> <<"a", ":", "A">>], <<>>) >>),
            Elem("wsdl:operation", [name |-> <<"A">>],
                 << Elem("wsdl:output", [message |-> <<"a", "_", "a">>], <<>>) >>) >>)

\* --- bindings: the soap children of the operations vary -------------------
SoapOperationKids ==
    { <<>>,
      << Elem("soap:operation", NoAttrs, <<>>) >>,
      << Elem("soap:operation", [soapAction |-> <<"a">>], <<>>) >>,
      << Elem("soap:operation", [soapAction |-> <<"_">>], <<>>) >>,
      << Elem("soap12:operation", [soapAction |-> <<"A">>], <<>>) >>,
      << Elem("soap:operation", [soapAction |-> <<"a">>], <<>>),
         Elem("soap12:operation", [soapAction |-> <<"A">>], <<>>) >> }

BindingOperationPool ==
    { Elem("wsdl:operation", [name |-> n], kids) :
        n \in {<<"a">>, <<"A">>}, kids \in SoapOperationKids }

SoapBinding ==
    Elem("soap:binding", [style |-> <<"a">>, transport |-> <<"A">>], <<>>)

BindingPool ==
    { Elem("wsdl:binding", [name |-> <<"a">>, type |-> <<"A", ":", "a">>],
           <<SoapBinding, op>>) : op \in BindingOperationPool }
    \cup
    { \* a binding of a port type the document does not hold
      Elem("wsdl:binding", [name |-> <<"A">>, type |-> <<"A">>],
           << Elem("wsdl:operation", [name |-> <<"a">>],
                   << Elem("soap:operation", [soapAction |-> <<".">>], <<>>) >>) >>),
      \* the same operation name twice in one binding
      Elem("wsdl:binding", [name |-> <<"_">>, type |-> <<"a">>],
           << Elem("wsdl:operation", [name |-> <<"a">>],
                   << Elem("soap:operation", [soapAction |-> <<":">>], <<>>) >>),
              Elem("wsdl:operation", [name |-> <<"a">>],
                   << Elem("soap:operation", [soapAction |-> <<" ">>], <<>>) >>) >>) }

BindingDocs ==
    { Definitions(<<FixedPortType>> \o bindings) :
        bindings \in SeqsUpTo(BindingPool, MaxBindings) }

\* --- messages and schema types --------------------------------------------
Part(attrs) == Elem("wsdl:part", attrs, <<>>)

MessagePool ==
    { Elem("wsdl:message", [name |-> <<"a">>],
           << Part([name |-> <<"a">>, element |-> <<"a", ":", "A">>]) >>),
      Elem("wsdl:message", [name |-> <<"a", ".", "a">>],
           << Part([name |-> <<"a">>, type |-> <<"a", ":", "a">>]) >>),
      Elem("wsdl:message", [name |-> <<"a", "_", "a">>],
           << Part([name |-> <<"a">>, element |-> <<"a", "_", "a">>]),
              Part([name |-> <<"A">>]) >>),
      Elem("wsdl:message", [name |-> <<"a", " ", "a">>],
           << Part([name |-> <<"a">>, element |-> <<"a", ":", "a", ".", "a">>,
                    type |-> <<"a">>]) >>) }

XsdElement(attrs, kids) == Elem("xsd:element", attrs, kids)
Annotation(txt) ==
    Elem("xsd:annotation", NoAttrs, << TextElem("xsd:documentation", txt) >>)

SchemaItemPool ==
    { \* a named complex type
      Elem("xsd:complexType", [name |-> <<"A">>],
           << Annotation(<<"a", " ">>),
              Elem("xsd:sequence", NoAttrs,
                   << XsdElement([name |-> <<"a">>, type |-> <<"a", ":", "a">>,
                                  minOccurs |-> <<"0">>, maxOccurs |-> <<"u">>,
                                  nillable |-> <<"t","r","u","e">>], <<>>) >>) >>),
      Elem("xsd:complexType", [name |-> <<"a", ".", "a">>],
           << Elem("xsd:sequence", NoAttrs,
                   << XsdElement([name |-> <<"A">>, type |-> <<"a", ":", "A">>], <<>>) >>) >>),
      \* a simple top-level element
      XsdElement([name |-> <<"a">>, type |-> <<"a", ":", "A">>], <<>>),
      \* a top-level element with an anonymous complex type of two fields
      XsdElement([name |-> <<"a", "_", "a">>],
                 << Elem("xsd:complexType", NoAttrs,
                         << Elem("xsd:sequence", NoAttrs,
                                 << XsdElement([name |-> <<"a">>, type |-> <<"a">>], <<>>),
                                    XsdElement([name |-> <<"A">>], <<>>) >>) >>) >>) }

Types(items) ==
    Elem("wsdl:types", NoAttrs, << Elem("xsd:schema", NoAttrs, items) >>)

MessageTypeDocs ==
    { Definitions(<<Types(items)>> \o messages \o <<FixedPortType>>) :
        items \in SeqsUpTo(SchemaItemPool, MaxTypes),
        messages \in SeqsUpTo(MessagePool, MaxMessages) }
    \cup
    { \* no types section at all
      Definitions(messages \o <<FixedPortType>>) :
        messages \in SeqsUpTo(MessagePool, MaxMessages) }

\* --- schemas alone: nested, unnamed and repeated declarations -------------
ExtraSchemaItemPool ==
    { \* a top-level element without a name
      XsdElement([type |-> <<"a">>], <<>>),
      \* a top-level element whose anonymous complex type nests another one
      XsdElement([name |-> <<"A">>],
                 << Annotation(<<"A">>),
                    Elem("xsd:complexType", NoAttrs,
                         << Elem("xsd:sequence", NoAttrs,
                                 << XsdElement([name |-> <<"a">>, maxOccurs |-> <<"2">>],
                                        << Elem("xsd:complexType", NoAttrs,
                                             << Elem("xsd:sequence", NoAttrs,
                                                  << XsdElement([name |-> <<"_">>,
                                                                 type |-> <<"a", ":", "A">>,
                                                                 nillable |-> <<"f">>],
                                                                <<>>) >>) >>) >>),
                                    XsdElement([name |-> <<".">>, minOccurs |-> <<"0">>],
                                               <<>>) >>) >>) >>),
      \* a named complex type without fields, its name used before
      Elem("xsd:complexType", [name |-> <<"a">>], <<>>),
      \* declarations whose name attribute is the empty string
      Elem("xsd:complexType", [name |-> <<>>],
           << XsdElement([name |-> <<"a">>], <<>>) >>),
      XsdElement([name |-> <<>>, type |-> <<"a">>], <<>>),
      \* a top-level element whose nested complex type carries a name
      XsdElement([name |-> <<"_">>, type |-> <<"a">>],
                 << Elem("xsd:complexType", [name |-> <<".">>],
                         << XsdElement([name |-> <<"a">>, nillable |-> <<>>], <<>>) >>) >>) }

SchemaDocs ==
    { Definitions(<<Types(items)>>) :
        items \in SeqsUpTo(SchemaItemPool \cup ExtraSchemaItemPool, MaxTypes) }
    \cup
    { \* two schemas in one types section
      Definitions(<< Elem("wsdl:types", NoAttrs,
                          << Elem("xsd:schema", NoAttrs, <<x, y>>),
                             Elem("xsd:schema", NoAttrs, <<y, x>>) >>) >>) :
        x \in SchemaItemPool, y \in ExtraSchemaItemPool }

\* --- documents with optional attributes and children left out -------------
TopLevelPool ==
    { \* a port without binding and address
      Elem("wsdl:service", [name |-> <<"a">>],
           << Elem("wsdl:port", [name |-> <<"a">>], <<>>),
              Elem("wsdl:port", [name |-> <<"A">>], <<>>) >>),
      Elem("wsdl:service", [name |-> <<"A">>], <<>>),
      \* a binding without type and soap:binding, an operation without soap:operation
      Elem("wsdl:binding", [name |-> <<"a">>],
           << Elem("wsdl:operation", [name |-> <<"A">>], <<>>),
              Elem("wsdl:operation", [name |-> <<"a">>], <<>>) >>),
      \* operations without documentation, input, output; an input without message
      Elem("wsdl:portType", [name |-> <<"A">>],
           << Elem("wsdl:operation", [name |-> <<"a">>], <<>>),
              Elem("wsdl:operation", [name |-> <<"A">>],
                   << Elem("wsdl:documentation", NoAttrs, <<>>),
                      Elem("wsdl:input", NoAttrs, <<>>) >>) >>),
      \* a part without element and type
      Elem("wsdl:message", [name |-> <<"a">>],
           << Part([name |-> <<"A">>]), Part([name |-> <<"a">>]) >>),
      Elem("wsdl:message", [name |-> <<"A">>], <<>>),
      \* a field and a top-level element without any optional attribute
      Types(<< XsdElement([name |-> <<"A">>], <<>>),
               Elem("xsd:complexType", [name |-> <<"a">>],
                    << XsdElement([name |-> <<"a">>], <<>>) >>) >>) }

TopLevelDocs ==
    { Definitions(kids) : kids \in SeqsUpTo(TopLevelPool, MaxTopLevel) }
    \cup { Elem("wsdl:definitions", NoAttrs, <<>>) }

\* --- soap:binding variants --------------------------------------------------
SoapBindingKids ==
    { <<>>,
      << Elem("soap:binding", NoAttrs, <<>>) >>,
      << Elem("soap:binding", [style |-> <<"a">>], <<>>) >>,
      << Elem("soap:binding", [transport |-> <<"A">>], <<>>) >>,
      << Elem("soap:binding", [style |-> <<"a">>, transport |-> <<"A">>], <<>>) >>,
      << Elem("soap12:binding", [style |-> <<"a">>, transport |-> <<"A">>], <<>>) >> }

BindingStyleDocs ==
    { Definitions(<< Elem("wsdl:binding", [name |-> <<"a">>, type |-> <<"a">>],
                          k1 \o << Elem("wsdl:operation", [name |-> <<"a">>], <<>>) >>),
                     Elem("wsdl:binding", [name |-> <<"A">>, type |-> <<"a">>], k2) >>) :
        k1 \in SoapBindingKids, k2 \in SoapBindingKids }

\* --- one qualified name in every reference attribute ----------------------
QNamePool ==
    { <<"a", ":", "A">>, <<"a", ":", "a", ":", "A">>, <<"a", ":">>, <<":", "a">>,
      <<"A">>, <<>>, <<"a", ".", ":", "A", " ">> }

ReferenceDoc(q) ==
    Definitions(
        << Types(<< XsdElement([name |-> <<"a">>, type |-> q], <<>>),
                    Elem("xsd:complexType", [name |-> <<"A">>],
                         << XsdElement([name |-> <<"a">>, type |-> q], <<>>) >>),
                    XsdElement([name |-> <<"_">>],
                        << Elem("xsd:complexType", NoAttrs,
                                << XsdElement([name |-> <<"a">>, type |-> q], <<>>) >>) >>) >>),
           Elem("wsdl:message", [name |-> <<"a">>],
                << Part([name |-> <<"a">>, element |-> q]),
                   Part([name |-> <<"A">>, type |-> q]),
                   Part([name |-> <<"_">>, element |-> q, type |-> <<"a", ":", "a">>]) >>),
           Elem("wsdl:portType", [name |-> <<"a">>],
                << Elem("wsdl:operation", [name |-> <<"a">>],
                        << Elem("wsdl:input", [message |-> q], <<>>),
                           Elem("wsdl:output", [message |-> q], <<>>) >>) >>),
           Elem("wsdl:binding", [name |-> <<"a">>, type |-> q], <<>>),
           Elem("wsdl:service", [name |-> <<"a">>],
                << Elem("wsdl:port", [name |-> <<"a">>, binding |-> q], <<>>) >>) >>)

ReferenceDocs == { ReferenceDoc(q) : q \in QNamePool }

Docs ==
    ServiceDocs \cup BindingDocs \cup MessageTypeDocs
    \cup SchemaDocs \cup TopLevelDocs \cup BindingStyleDocs \cup ReferenceDocs

(***************************************************************************)
(* parse() followed by the renderer main() selects                         *)
(***************************************************************************)
\* The database before any call: the tables as create_all leaves them.
DbIdle ==
    /\ orders = {}
    /\ pending = {}
    /\ seq = 1
    /\ call = [fn |-> "None"]
    /\ session_calls = <<>>
    /\ raised = "None"
    /\ orders_before = {}

\* The line of a reader that holds none.
NoLine == [n |-> 0, text |-> "None"]

\* FuncRunner as __init__ leaves it.
RunnerIdle ==
    /\ log_buffer = <<>>
    /\ lock = "free"
    /\ reader = [pc |-> "off", line |-> NoLine]
    /\ stdout = <<>>
    /\ it = [i |-> 0, mutated |-> FALSE]
    /\ polls = 0
    /\ lines = <<>>
    /\ lines_returned = <<>>
    /\ evicted = 0

\* The loader and main before anything has happened.
LoaderIdle ==
    /\ wsdl_source = "file"
    /\ args = [format |-> "text", output |-> FALSE]
    /\ attempt = 0
    /\ last_error = "None"
    /\ events = <<>>
    /\ exit_status = Running
    /\ written = FALSE
    /\ outcomes = <<>>

\* data before parse() has returned.
NoData ==
    [target_namespace |-> NoneStr, services |-> <<>>, bindings |-> <<>>,
     port_types |-> <<>>, messages |-> <<>>, types |-> <<>>]

Init ==
    /\ pc = "start"
    /\ root \in Docs
    /\ data = NoData
    /\ html = <<>>
    /\ text = <<>>
    /\ name = <<>>
    /\ targets = {}
    /\ prefix = <<>>
    /\ display_text = NoneStr
    /\ result = <<>>
    /\ previous = <<>>
    /\ LoaderIdle
    /\ DbIdle
    /\ RunnerIdle
    /\ ret = "True"
    /\ target_namespace = GetD(root, "targetNamespace", <<>>)

\* data = wsdl_parser.parse()
Parse ==
    /\ pc = "start"
    /\ data' = ParseData(root)
    /\ pc' = "parsed"
    /\ UNCHANGED <<name, targets, prefix, display_text, result, root, html, text,
                   previous>>
    /\ UNCHANGED <<loaderVars, restVars>>

\* Mutant: the renderers use up the type entries they have shown.
AfterRendering_TypesConsumed(d) == [d EXCEPT !.types = <<>>]

\* The dict after a renderer has gone through it: both renderers only read
\* it, the name sets of generate_html_output are built aside.
AfterRendering(d) == d

\* generate_html_output(data), args.format == "html" in main; a caller may
\* render the same dict again.
GenerateHtml ==
    /\ pc \in {"parsed", "html"}
    /\ html' = generate_html_output(data)
    /\ data' = AfterRendering(data)
    /\ previous' = html
    /\ pc' = IF pc = "parsed" THEN "html" ELSE "html_twice"
    /\ UNCHANGED <<name, targets, prefix, display_text, result, root, text>>
    /\ UNCHANGED <<loaderVars, restVars>>

\* format_text_output(data), args.format == "text" in main; a caller may
\* render the same dict again.
FormatText ==
    /\ pc \in {"parsed", "text"}
    /\ text' = format_text_output(data)
    /\ data' = AfterRendering(data)
    /\ previous' = text
    /\ pc' = IF pc = "parsed" THEN "text" ELSE "text_twice"
    /\ UNCHANGED <<name, targets, prefix, display_text, result, root, html>>
    /\ UNCHANGED <<loaderVars, restVars>>

Next == Parse \/ GenerateHtml \/ FormatText

Spec == Init /\ [][Next]_vars

(***************************************************************************)
(* main from the command line on: load_wsdl with its retry loop, parse,    *)
(* the renderer chosen by --format and the output                          *)
(***************************************************************************)
linkVars == <<name, targets, prefix, display_text, result, previous>>

\* The documents a source can turn out to hold.
LoadDocs ==
    { Definitions(<< Elem("wsdl:message", [name |-> <<"a">>],
                          << Part([name |-> <<"a">>, element |-> <<"a", ":", "A">>]) >>) >>),
      Definitions(<<FixedPortType>>),
      Elem("wsdl:definitions", NoAttrs, <<>>) }

\* What one pass through the body of the retry loop can end in: the document
\* is there, or requests.get, raise_for_status or etree.fromstring raises.
FetchOutcomes ==
    {"ok", "ConnectionError", "Timeout", "HTTPError", "XMLSyntaxError", "ValueError"}
\* What etree.parse of a local file can end in.
FileOutcomes == {"ok", "XMLSyntaxError", "FileNotFoundError", "OSError"}

\* The subclasses of requests.RequestException among the outcomes.
RequestExceptions == {"ConnectionError", "Timeout", "HTTPError"}
\* The subclasses of Exception among the outcomes.
Exceptions ==
    RequestExceptions \cup {"XMLSyntaxError", "FileNotFoundError", "OSError", "ValueError"}

\* The except clause of load_wsdl that catches exc.
ExceptClause(exc) ==
    IF exc \in RequestExceptions THEN "RequestException"
    ELSE IF exc = "XMLSyntaxError" THEN "XMLSyntaxError"
    ELSE IF exc = "FileNotFoundError" THEN "FileNotFoundError"
    ELSE IF exc \in Exceptions THEN "Exception"
    ELSE "uncaught"

\* exc is raised inside the try block of load_wsdl: every except clause
\* returns False; an exception no clause catches leaves load_wsdl.
Raise(exc) ==
    IF ExceptClause(exc) = "uncaught"
    THEN ret' = "raised" /\ pc' = "propagated"
    ELSE ret' = "False" /\ pc' = "returned"

\* Mutant: every exception of requests is taken for a connection error.
Retried_AnyRequestException(exc) == exc \in RequestExceptions

\* except requests.exceptions.ConnectionError
Retried(exc) == exc = "ConnectionError"

\* Mutant: a connection error is always followed by the wait.
RetryAgain_Always(a) == TRUE

\* if attempt < max_retries - 1
RetryAgain(a) == a < MaxRetries - 1

\* Mutant: parse goes on whatever load_wsdl returned.
LoadFailed_Ignored(r) == FALSE

\* if not self.load_wsdl()
LoadFailed(r) == r # "True"

Event(op, arg) == [op |-> op, arg |-> arg]

InitLoad ==
    /\ pc = "main"
    /\ wsdl_source \in {"url", "file", "invalid"}
    /\ args \in [format : {"text", "html"}, output : BOOLEAN]
    /\ attempt = 0
    /\ last_error = "None"
    /\ events = <<>>
    /\ ret = "None"
    /\ exit_status = Running
    /\ written = FALSE
    /\ target_namespace = NoneStr
    /\ outcomes = <<>>
    /\ DbIdle
    /\ RunnerIdle
    /\ root = NoRoot
    /\ data = NoData
    /\ html = <<>>
    /\ text = <<>>
    /\ name = <<>>
    /\ targets = {}
    /\ prefix = <<>>
    /\ display_text = NoneStr
    /\ result = <<>>
    /\ previous = <<>>

\* main calls parse, parse calls load_wsdl, load_wsdl looks at the source:
\* urlparse raises ValueError on a malformed name.
UrlParse ==
    /\ pc = "main"
    /\ IF wsdl_source = "invalid" THEN Raise("ValueError")
       ELSE /\ pc' = IF wsdl_source = "url" THEN "get" ELSE "file"
            /\ ret' = ret
    /\ UNCHANGED <<restVars, linkVars, root, data, html, text, wsdl_source, args, attempt,
                   last_error, events, exit_status, written, target_namespace,
                   outcomes>>

\* One pass through the body of the retry loop.
Fetch ==
    /\ pc = "get"
    /\ attempt < MaxRetries
    /\ events' = Append(events, Event("get", GET_TIMEOUT))
    /\ \E outcome \in FetchOutcomes :
          /\ outcomes' = Append(outcomes, outcome)
          /\ CASE outcome = "ok" ->
                  /\ root' \in LoadDocs
                  /\ target_namespace' = GetD(root', "targetNamespace", <<>>)
                  /\ ret' = "True"
                  /\ pc' = "returned"
                  /\ UNCHANGED last_error
            [] Retried(outcome) ->
                  /\ last_error' = outcome
                  /\ IF RetryAgain(attempt)
                     THEN pc' = "sleep" /\ ret' = ret
                     ELSE Raise(outcome)
                  /\ UNCHANGED <<root, target_namespace>>
            [] OTHER ->
                  /\ Raise(outcome)
                  /\ UNCHANGED <<root, target_namespace, last_error>>
    /\ UNCHANGED <<restVars, linkVars, data, html, text, wsdl_source, args, attempt,
                   exit_status, written>>

\* time.sleep(1), then the loop takes its next value; when there is none the
\* else clause of the loop raises last_error.
Sleep ==
    /\ pc = "sleep"
    /\ events' = Append(events, Event("sleep", SLEEP_SECONDS))
    /\ attempt' = attempt + 1
    /\ IF attempt + 1 < MaxRetries
       THEN pc' = "get" /\ ret' = ret
       ELSE Raise(last_error)
    /\ UNCHANGED <<restVars, linkVars, root, data, html, text, wsdl_source, args,
                   last_error, exit_status, written, target_namespace, outcomes>>

\* etree.parse of a local file.
ReadFile ==
    /\ pc = "file"
    /\ events' = Append(events, Event("parse_file", 0))
    /\ \E outcome \in FileOutcomes :
          /\ outcomes' = Append(outcomes, outcome)
          /\ IF outcome = "ok"
             THEN /\ root' \in LoadDocs
                  /\ target_namespace' = GetD(root', "targetNamespace", <<>>)
                  /\ ret' = "True" /\ pc' = "returned"
             ELSE Raise(outcome) /\ UNCHANGED <<root, target_namespace>>
    /\ UNCHANGED <<restVars, linkVars, data, html, text, wsdl_source, args, attempt,
                   last_error, exit_status, written>>

\* parse after load_wsdl has returned: None, or the five extraction passes.
ParseAfterLoad ==
    /\ pc = "returned"
    /\ IF LoadFailed(ret)
       THEN UNCHANGED <<data, events>>
       ELSE /\ data' = ParseData(root)
            /\ events' = Append(events, Event("extract", 0))
    /\ pc' = "main_check"
    /\ UNCHANGED <<restVars, linkVars, root, html, text, wsdl_source, args, attempt,
                   last_error, ret, exit_status, written, target_namespace,
                   outcomes>>

\* if data is None: sys.exit(1)
MainCheck ==
    /\ pc = "main_check"
    /\ IF data = NoData
       THEN exit_status' = 1 /\ pc' = "exited"
       ELSE exit_status' = exit_status /\ pc' = "render"
    /\ UNCHANGED <<restVars, linkVars, root, data, html, text, wsdl_source, args, attempt,
                   last_error, events, ret, written, target_namespace, outcomes>>

\* The renderer chosen by args.format.
Render ==
    /\ pc = "render"
    /\ IF args.format = "html"
       THEN /\ html' = generate_html_output(data)
            /\ events' = Append(events, Event("generate_html_output", 0))
            /\ UNCHANGED text
       ELSE /\ text' = format_text_output(data)
            /\ events' = Append(events, Event("format_text_output", 0))
            /\ UNCHANGED html
    /\ data' = AfterRendering(data)
    /\ pc' = "output"
    /\ UNCHANGED <<restVars, linkVars, root, wsdl_source, args, attempt,
                   last_error, ret, exit_status, written, target_namespace,
                   outcomes>>

\* The output goes to the file named by --output or to standard output; main
\* returns.
Output ==
    /\ pc = "output"
    /\ IF args.output
       THEN /\ written' = TRUE
            /\ events' = Append(events, Event("write_text", 0))
       ELSE /\ written' = written
            /\ events' = Append(events, Event("print", 0))
    /\ exit_status' = 0
    /\ pc' = "exited"
    /\ UNCHANGED <<restVars, linkVars, root, data, html, text, wsdl_source, args, attempt,
                   last_error, ret, target_namespace, outcomes>>

NextLoad ==
    UrlParse \/ Fetch \/ Sleep \/ ReadFile \/ ParseAfterLoad \/ MainCheck
    \/ Render \/ Output

\* Every call returns: requests.get within its timeout, time.sleep after its
\* second, the rest after finite work.
SpecLoad == InitLoad /\ [][NextLoad]_vars /\ WF_vars(NextLoad)

(***************************************************************************)
(* services.sqlalchemy_sample: select, upsert and delete, each inside      *)
(* db.common.session_scope, against the tables of db.models                *)
(***************************************************************************)
\* The customers and products that exist; 9 is the id of none.
CustomerIds == {1}
ProductIds == {1, 2}

\* Column order_date is a Date: a date given as text is stored as the date.
AsDate(v) == [kind |-> "date", value |-> v.value]

\* The dicts a caller passes to upsert: with an order_id, or without one and
\* then the column default, the sequence, supplies it.
OrderDataPool ==
    LET values == { [customer_id |-> 1, product_id |-> 1, quantity |-> 1,
                     order_date |-> [kind |-> "str", value |-> 1]],
                    [customer_id |-> 1, product_id |-> 2, quantity |-> 2,
                     order_date |-> [kind |-> "date", value |-> 2]],
                    [customer_id |-> 9, product_id |-> 1, quantity |-> 1,
                     order_date |-> [kind |-> "date", value |-> 1]] }
        WithId(v, i) == [f \in DOMAIN v \cup {"order_id"} |->
                            IF f = "order_id" THEN i ELSE v[f]]
    IN  values \cup {WithId(v, i) : v \in values, i \in 1..MaxOrderId}

\* The calls of the service functions a caller can make.
ServiceCalls ==
    {[fn |-> "upsert", arg |-> d] : d \in OrderDataPool}
    \cup {[fn |-> "delete", arg |-> [product_id |-> p]] : p \in ProductIds}
    \cup {[fn |-> "select", arg |-> [product_id |-> 0]]}

\* orders_customer_id_fkey and orders_product_id_fkey
ForeignKeysHold(row) == row.customer_id \in CustomerIds /\ row.product_id \in ProductIds

\* Mutant: ON CONFLICT DO NOTHING.
OnConflictDoNothing(t, row) ==
    IF \E r \in t : r.order_id = row.order_id THEN t ELSE t \cup {row}

\* insert(Orders).values(**order_data).on_conflict_do_update(constraint=
\* "orders_pkey", set_={the four columns from excluded}) applied to rows t.
OnConflictDoUpdate(t, row) ==
    IF \E r \in t : r.order_id = row.order_id
    THEN { IF r.order_id = row.order_id
           THEN [r EXCEPT !.customer_id = row.customer_id,
                          !.product_id = row.product_id,
                          !.quantity = row.quantity,
                          !.order_date = row.order_date]
           ELSE r : r \in t }
    ELSE t \cup {row}

\* What a call on the session does to the committed rows and to those of
\* the session's transaction: commit makes the latter the former, rollback
\* and close drop what was not committed.
SessionCall(op, st) ==
    IF op = "commit" THEN [orders |-> st.pending, pending |-> st.pending]
    ELSE [orders |-> st.orders, pending |-> st.orders]

\* Mutant: session_scope commits when the body ends normally.
HandlerCalls_CommitOnSuccess(exc) ==
    IF exc # "None" THEN <<"rollback", "close">> ELSE <<"commit", "close">>

\* The calls session_scope makes on the session after the with-body: the
\* except clause and the finally clause.
HandlerCalls(exc) ==
    IF exc # "None" THEN <<"rollback", "close">> ELSE <<"close">>

\* The with-body raises exc after the session calls done.
BodyRaises(done, exc) ==
    /\ session_calls' = session_calls \o done \o <<exc>>
    /\ raised' = exc
    /\ pc' = "exit"

InitDb ==
    /\ pc = "idle"
    /\ DbIdle
    /\ RunnerIdle
    /\ LoaderIdle
    /\ ret = "None"
    /\ target_namespace = NoneStr
    /\ root = NoRoot
    /\ data = NoData
    /\ html = <<>>
    /\ text = <<>>
    /\ name = <<>>
    /\ targets = {}
    /\ prefix = <<>>
    /\ display_text = NoneStr
    /\ result = <<>>
    /\ previous = <<>>

\* A service function is called: session_scope creates the engine and the
\* session and yields it to the with-body.
Call ==
    /\ pc = "idle"
    /\ \E c \in ServiceCalls :
          /\ (c.fn = "upsert" /\ "order_id" \notin DOMAIN c.arg) => seq <= MaxOrderId
          /\ call' = c
          /\ pc' = c.fn
    /\ session_calls' = <<"Session">>
    /\ orders_before' = orders
    /\ pending' = orders
    /\ raised' = "None"
    /\ UNCHANGED <<orders, seq, wsdlVars, runnerVars>>

\* upsert: session.execute(stmt)
UpsertExecute ==
    /\ pc = "upsert"
    /\ LET d == call.arg
           given == "order_id" \in DOMAIN d
           row == [order_id |-> IF given THEN d.order_id ELSE seq,
                   customer_id |-> d.customer_id,
                   product_id |-> d.product_id,
                   quantity |-> d.quantity,
                   order_date |-> AsDate(d.order_date)]
       IN  \E outcome \in {"ok", "OperationalError"} :
              IF outcome # "ok"
              THEN BodyRaises(<<"execute">>, outcome) /\ UNCHANGED <<pending, seq>>
              ELSE /\ seq' = IF given THEN seq ELSE seq + 1
                   /\ IF ForeignKeysHold(row)
                      THEN /\ pending' = OnConflictDoUpdate(pending, row)
                           /\ session_calls' = Append(session_calls, "execute")
                           /\ pc' = "commit"
                           /\ UNCHANGED raised
                      ELSE BodyRaises(<<"execute">>, "IntegrityError")
                           /\ UNCHANGED pending
    /\ UNCHANGED <<orders, call, orders_before, wsdlVars, runnerVars>>

\* delete: session.query(Orders).filter(...).first() and session.delete(order);
\* first() without ORDER BY returns any of the matching rows, or None, which
\* session.delete refuses.
DeleteFirst ==
    /\ pc = "delete"
    /\ LET found == {r \in pending : r.product_id = call.arg.product_id}
       IN  IF found = {}
           THEN BodyRaises(<<"query", "delete">>, "UnmappedInstanceError")
                /\ UNCHANGED pending
           ELSE /\ \E order \in found : pending' = pending \ {order}
                /\ session_calls' = session_calls \o <<"query", "delete">>
                /\ pc' = "commit"
                /\ UNCHANGED raised
    /\ UNCHANGED <<orders, seq, call, orders_before, wsdlVars, runnerVars>>

\* upsert and delete: session.commit()
Commit ==
    /\ pc = "commit"
    /\ \E outcome \in {"ok", "OperationalError"} :
          IF outcome # "ok"
          THEN BodyRaises(<<"commit">>, outcome) /\ UNCHANGED <<orders, pending>>
          ELSE LET st == SessionCall("commit", [orders |-> orders, pending |-> pending])
               IN  /\ orders' = st.orders
                   /\ pending' = st.pending
                   /\ session_calls' = Append(session_calls, "commit")
                   /\ pc' = IF call.fn = "upsert" THEN "query" ELSE "exit"
                   /\ UNCHANGED raised
    /\ UNCHANGED <<seq, call, orders_before, wsdlVars, runnerVars>>

\* select: session.query(Products).all(); upsert: session.query(Orders).all()
\* and the logging of the rows.
Query ==
    /\ pc \in {"select", "query"}
    /\ session_calls' = Append(session_calls, "query")
    /\ pc' = "exit"
    /\ UNCHANGED <<orders, pending, seq, call, raised, orders_before, wsdlVars, runnerVars>>

\* The with block is left: session_scope's except and finally clauses.
ScopeExit ==
    /\ pc = "exit"
    /\ LET calls == HandlerCalls(raised)
           st1 == SessionCall(calls[1], [orders |-> orders, pending |-> pending])
           st2 == IF Len(calls) > 1 THEN SessionCall(calls[2], st1) ELSE st1
       IN  /\ session_calls' = session_calls \o calls
           /\ orders' = st2.orders
           /\ pending' = st2.pending
    /\ pc' = "done"
    /\ UNCHANGED <<seq, call, raised, orders_before, wsdlVars, runnerVars>>

\* The service function returns, or the exception reaches its caller.
Return ==
    /\ pc = "done"
    /\ pc' = "idle"
    /\ call' = [fn |-> "None"]
    /\ session_calls' = <<>>
    /\ raised' = "None"
    /\ UNCHANGED <<orders, pending, seq, orders_before, wsdlVars, runnerVars>>

NextDb ==
    Call \/ UpsertExecute \/ DeleteFirst \/ Commit \/ Query \/ ScopeExit \/ Return

SpecDb == InitDb /\ [][NextDb]_vars

(***************************************************************************)
(* tests.func_runner.FuncRunner: start polling the log buffer, the reader  *)
(* thread filling it, and the two getters                                  *)
(***************************************************************************)
STARTED_LOG == "Worker process started and initialized"

\* Mutant: the lock lets a second thread in.
Free_Always(l) == TRUE

\* threading.Lock: acquire succeeds when no thread holds it.
Free(l) == l = "free"

\* deque(maxlen=buffer_size).append: a full deque discards its oldest item.
DequeAppend(q, x) ==
    IF Len(q) < BufferSize THEN Append(q, x) ELSE Append(Tail(q), x)

InitRunner ==
    /\ pc = "new"
    /\ RunnerIdle
    /\ DbIdle
    /\ LoaderIdle
    /\ ret = "None"
    /\ target_namespace = NoneStr
    /\ root = NoRoot
    /\ data = NoData
    /\ html = <<>>
    /\ text = <<>>
    /\ name = <<>>
    /\ targets = {}
    /\ prefix = <<>>
    /\ display_text = NoneStr
    /\ result = <<>>
    /\ previous = <<>>

\* start up to the polling loop: the buffer is cleared, the process and the
\* reader thread are started.
Start ==
    /\ pc = "new"
    /\ log_buffer' = <<>>
    /\ reader' = [pc |-> "read", line |-> NoLine]
    /\ polls' = 0
    /\ pc' = "poll"
    /\ UNCHANGED <<lock, stdout, it, lines, lines_returned, evicted, wsdlVars, dbVars>>

\* for _ in range(300): the iterator of the generator expression is made;
\* after the last poll TimeoutError is raised.
Poll ==
    /\ pc = "poll"
    /\ IF polls < POLLS
       THEN it' = [i |-> 1, mutated |-> FALSE] /\ pc' = "scan"
       ELSE it' = it /\ pc' = "TimeoutError"
    /\ UNCHANGED <<log_buffer, lock, reader, stdout, polls, lines, lines_returned,
                   evicted, wsdlVars, dbVars>>

\* any(STARTED_LOG in line for line in self._log_buffer), one item at a time:
\* the iterator of a deque that has changed since it was made raises
\* RuntimeError; a line with STARTED_LOG ends start; at the end of the buffer
\* time.sleep(0.1) and the next poll.
Scan ==
    /\ pc = "scan"
    /\ IF it.mutated
       THEN pc' = "RuntimeError" /\ UNCHANGED <<it, polls>>
       ELSE IF it.i > Len(log_buffer)
       THEN pc' = "poll" /\ polls' = polls + 1 /\ UNCHANGED it
       ELSE IF log_buffer[it.i].text = STARTED_LOG
       THEN pc' = "started" /\ UNCHANGED <<it, polls>>
       ELSE pc' = "scan" /\ it' = [it EXCEPT !.i = @ + 1] /\ UNCHANGED polls
    /\ UNCHANGED <<log_buffer, lock, reader, stdout, lines, lines_returned, evicted,
                   wsdlVars, dbVars>>

\* _read_stdout: for line in self.proc.stdout
ReaderRead ==
    /\ reader.pc = "read"
    /\ Len(stdout) < MaxLines
    \* a line with STARTED_LOG in it, or one without
    /\ \E t \in {STARTED_LOG, "Host lock lease acquired"} :
          /\ stdout' = Append(stdout, t)
          /\ reader' = [pc |-> "acquire", line |-> [n |-> Len(stdout) + 1, text |-> t]]
    /\ UNCHANGED <<pc, log_buffer, lock, it, polls, lines, lines_returned, evicted,
                   wsdlVars, dbVars>>

\* _read_stdout: with self._lock
ReaderAcquire ==
    /\ reader.pc = "acquire"
    /\ Free(lock)
    /\ lock' = "reader"
    /\ reader' = [reader EXCEPT !.pc = "locked"]
    /\ UNCHANGED <<pc, log_buffer, stdout, it, polls, lines, lines_returned, evicted,
                   wsdlVars, dbVars>>

\* _read_stdout: the append, the write to the log file and the end of the
\* with block; _stop_event is not set.
ReaderAppend ==
    /\ reader.pc = "locked"
    /\ log_buffer' = DequeAppend(log_buffer, reader.line)
    /\ evicted' = evicted + (IF Len(log_buffer) < BufferSize THEN 0 ELSE 1)
    /\ it' = [it EXCEPT !.mutated = TRUE]
    /\ lock' = "free"
    /\ reader' = [pc |-> "read", line |-> NoLine]
    /\ UNCHANGED <<pc, stdout, polls, lines, lines_returned, wsdlVars, dbVars>>

\* get_log_lines / get_and_clear_log_lines: with self._lock
GetterAcquire ==
    /\ pc = "started"
    /\ Free(lock)
    /\ lock' = "main"
    /\ pc' \in {"get_log_lines", "get_and_clear_log_lines"}
    /\ UNCHANGED <<log_buffer, reader, stdout, it, polls, lines, lines_returned,
                   evicted, wsdlVars, dbVars>>

\* list(self._log_buffer); get_log_lines returns it.
Copy ==
    /\ pc \in {"get_log_lines", "get_and_clear_log_lines"}
    /\ lines' = log_buffer
    /\ IF pc = "get_log_lines"
       THEN lock' = "free" /\ pc' = "started"
       ELSE lock' = lock /\ pc' = "clear"
    /\ UNCHANGED <<log_buffer, reader, stdout, it, polls, lines_returned, evicted,
                   wsdlVars, dbVars>>

\* get_and_clear_log_lines: self._log_buffer.clear() and return lines
Clear ==
    /\ pc = "clear"
    /\ log_buffer' = <<>>
    /\ it' = [it EXCEPT !.mutated = TRUE]
    /\ lines_returned' = lines_returned \o lines
    /\ lock' = "free"
    /\ pc' = "started"
    /\ UNCHANGED <<reader, stdout, polls, lines, evicted, wsdlVars, dbVars>>

NextRunner ==
    Start \/ Poll \/ Scan \/ ReaderRead \/ ReaderAcquire \/ ReaderAppend
    \/ GetterAcquire \/ Copy \/ Clear

SpecRunner == InitRunner /\ [][NextRunner]_vars

(***************************************************************************)
(* The anchor generator and the link resolver called on their own          *)
(***************************************************************************)
TargetPool == { <<>>, <<"a">>, <<"a", ".", "a">>, <<"a", "_", "a">> }

InitLink ==
    /\ pc = "start"
    /\ name \in Strings(MaxNameLen)
    /\ targets \in SUBSET TargetPool
    /\ prefix \in {PREFIX_MSG, PREFIX_TYPE}
    /\ display_text \in {NoneStr, <<>>, <<"A">>}
    /\ result = <<>>
    /\ previous = <<>>
    /\ root = NoRoot
    /\ data = NoData
    /\ html = <<>>
    /\ text = <<>>
    /\ LoaderIdle
    /\ DbIdle
    /\ RunnerIdle
    /\ ret = "None"
    /\ target_namespace = NoneStr

CallMakeAnchorId ==
    /\ pc = "start"
    /\ result' = _make_anchor_id(prefix, name)
    /\ pc' = "anchor"
    /\ UNCHANGED <<name, targets, prefix, display_text, root, data, html, text,
                   previous>>
    /\ UNCHANGED <<loaderVars, restVars>>

CallMakeLinkIfExists ==
    /\ pc = "start"
    /\ result' = _make_link_if_exists(name, targets, prefix, display_text)
    /\ pc' = "link"
    /\ UNCHANGED <<name, targets, prefix, display_text, root, data, html, text,
                   previous>>
    /\ UNCHANGED <<loaderVars, restVars>>

NextLink == CallMakeAnchorId \/ CallMakeLinkIfExists

SpecLink == InitLink /\ [][NextLink]_vars

(***************************************************************************)
(* Reading a rendered output back                                          *)
(***************************************************************************)
RECURSIVE Until(_, _, _)
\* The tokens of h from position i up to the first token of stops.
Until(h, i, stops) ==
    IF i > Len(h) \/ h[i] \in stops THEN <<>>
    ELSE <<h[i]>> \o Until(h, i + 1, stops)

\* The positions of token tok in h, ascending.
Positions(h, tok) == SelectSeq([i \in 1..Len(h) |-> i], LAMBDA i : h[i] = tok)

\* The first position of tok in h.
Pos(h, tok) == CHOOSE i \in 1..Len(h) : h[i] = tok /\ \A j \in 1..(i-1) : h[j] # tok

\* For every element opened by token open: its id and its heading.
Entries(h, open) ==
    LET P == Positions(h, open)
        Entry(i) == LET id == Until(h, i + 1, {ID_CLOSE})
                    IN  [id      |-> id,
                         heading |-> Until(h, i + Len(id) + 2, {"</h4><table><tr><th>name</th><th>element/type</th></tr>", H4_CLOSE})]
    IN  [k \in 1..Len(P) |-> Entry(P[k])]

\* Every <a href="#..."> of h: its target and its text.
Links(h) ==
    LET P == Positions(h, A_HREF)
        Link(i) == LET href == Until(h, i + 1, {"\" class=\"ref-link\">"})
                   IN  [href |-> href,
                        text |-> Until(h, i + Len(href) + 2, {"</a>"})]
    IN  [k \in 1..Len(P) |-> Link(P[k])]

\* The blocks of h that start at token open and end before a token of stops.
Blocks(h, open, stops) ==
    LET P == Positions(h, open)
    IN  [k \in 1..Len(P) |-> Until(h, P[k] + 1, stops)]

\* The part of the HTML output before / from the messages section.
BeforeMessages(h) == SubSeq(h, 1, Pos(h, SEC_MESSAGES) - 1)
FromMessages(h) == SubSeq(h, Pos(h, SEC_MESSAGES), Len(h))

Separators == {":", " ", "."}

\* n with ':', ' ' and '.' replaced by '_', character by character.
Sanitized(n) == [i \in 1..Len(n) |-> IF n[i] \in Separators THEN "_" ELSE n[i]]

IsLink(s) == s # <<>> /\ s[1] = A_HREF

(***************************************************************************)
(* Claims                                                                  *)
(***************************************************************************)

\* C1: _make_link_if_exists(r, S, prefix) returns an anchor link iff r is
\* non-empty and r is in S; otherwise it returns the plain text (the display
\* text if given, else r), which for r = "" without display text is "".
C1_LinkIffMember ==
    pc = "link" =>
        /\ IsLink(result) <=> (name # <<>> /\ name \in targets)
        /\ ~IsLink(result) =>
              result = (IF display_text \in {NoneStr, <<>>} THEN name ELSE display_text)
        /\ (name = <<>> /\ display_text \in {NoneStr, <<>>}) => result = <<>>

C1_Witness ==
    /\ pc = "link"
    /\ name = <<"a", ".", "a">>
    /\ name \in targets
    /\ display_text = NoneStr
    /\ result = <<A_HREF, "msg", "_", "a", "_", "a", "\" class=\"ref-link\">", "a", ".", "a", "</a>">>

MessageRefs(d) ==
    Flatten([i \in 1..Len(d.port_types) |->
        Flatten([j \in 1..Len(d.port_types[i].operations) |->
            << d.port_types[i].operations[j].input,
               d.port_types[i].operations[j].output >>])])

\* The references resolved against the type names: the element (else type)
\* reference of every part, then per type entry its field types or data type.
TypeRefs(d) ==
    Flatten([i \in 1..Len(d.messages) |->
        [j \in 1..Len(d.messages[i].parts) |->
            IF d.messages[i].parts[j].element # <<>>
            THEN d.messages[i].parts[j].element
            ELSE d.messages[i].parts[j].type]])
    \o Flatten([i \in 1..Len(d.types) |->
        IF d.types[i].type = "complexType"
        THEN [j \in 1..Len(d.types[i].elements) |-> d.types[i].elements[j].type]
        ELSE << d.types[i].dataType >>])

NamesOf(entries) == {entries[i].name : i \in 1..Len(entries)}

\* C2: resolution never crosses domains.  The links of the operations section
\* are exactly the input/output references that name a message, each to a
\* "msg" anchor; the links of the messages and types sections are exactly the
\* part/field/element references that name a type entry, each to a "type"
\* anchor; a name that exists only in the other domain is never linked.
C2_NoCrossDomainLinks ==
    pc = "html" =>
        LET opLinks == Links(BeforeMessages(html))
            tyLinks == Links(FromMessages(html))
            msgHits == SelectSeq(MessageRefs(data),
                           LAMBDA r : r # <<>> /\ r \in NamesOf(data.messages))
            tyHits  == SelectSeq(TypeRefs(data),
                           LAMBDA r : r # <<>> /\ r \in NamesOf(data.types))
        IN  /\ Len(opLinks) = Len(msgHits)
            /\ \A k \in 1..Len(opLinks) :
                  /\ opLinks[k].href = <<"msg", "_">> \o Sanitized(msgHits[k])
                  /\ opLinks[k].text = msgHits[k]
            /\ Len(tyLinks) = Len(tyHits)
            /\ \A k \in 1..Len(tyLinks) :
                  /\ tyLinks[k].href = <<"type", "_">> \o Sanitized(tyHits[k])
                  /\ tyLinks[k].text = tyHits[k]

\* A message and a type entry are both named "a"; "A" names a type entry only
\* and "a_a" a message only.  The operation input "a" links to msg_a and a
\* field type "a" to type_a; the operation output "A" and the part element
\* "a_a" stay plain text.
C2_Witness ==
    /\ pc = "html"
    /\ <<"a">> \in NamesOf(data.messages) \cap NamesOf(data.types)
    /\ <<"A">> \in NamesOf(data.types) \ NamesOf(data.messages)
    /\ <<"a", "_", "a">> \in NamesOf(data.messages) \ NamesOf(data.types)
    /\ \E k \in 1..Len(MessageRefs(data)) : MessageRefs(data)[k] = <<"A">>
    /\ \E k \in 1..Len(TypeRefs(data)) : TypeRefs(data)[k] = <<"a", "_", "a">>
    /\ \E k \in 1..Len(Links(BeforeMessages(html))) :
          Links(BeforeMessages(html))[k].href = <<"msg", "_", "a">>
    /\ \E k \in 1..Len(Links(FromMessages(html))) :
          Links(FromMessages(html))[k].href = <<"type", "_", "a">>
    /\ \A k \in 1..Len(Links(BeforeMessages(html))) :
          Links(BeforeMessages(html))[k].text # <<"A">>
    /\ \A k \in 1..Len(Links(FromMessages(html))) :
          Links(FromMessages(html))[k].text # <<"a", "_", "a">>

\* The id attributes of the message and type entries, in output order.
MessageIds(h) == [k \in 1..Len(Entries(h, MSG_OPEN)) |-> Entries(h, MSG_OPEN)[k].id]
TypeIds(h) == [k \in 1..Len(Entries(h, TYPE_OPEN)) |-> Entries(h, TYPE_OPEN)[k].id]

\* C4 as claimed: no two distinct message or type entries are emitted with
\* the same id attribute value.  Entries are taken as distinct when they are
\* of different kinds or have different names.
C4_AnchorsCollisionFree ==
    pc = "html" =>
        /\ \A i, j \in 1..Len(data.messages) :
              data.messages[i].name # data.messages[j].name
                  => MessageIds(html)[i] # MessageIds(html)[j]
        /\ \A i, j \in 1..Len(data.types) :
              data.types[i].name # data.types[j].name
                  => TypeIds(html)[i] # TypeIds(html)[j]
        /\ \A i \in 1..Len(data.messages) : \A j \in 1..Len(data.types) :
              MessageIds(html)[i] # TypeIds(html)[j]

\* Two names that agree up to the characters the anchor generator replaces.
SameUpToSeparators(n1, n2) ==
    /\ Len(n1) = Len(n2)
    /\ \A k \in 1..Len(n1) :
          \/ n1[k] = n2[k]
          \/ {n1[k], n2[k]} \subseteq Separators \cup {"_"}

\* C4 (amended): two message entries, or two type entries, are emitted with
\* the same id exactly when their names agree after ':', ' ' and '.' are
\* replaced by '_'; a message entry and a type entry never share an id.
C4_CollideIffSanitizedNamesEqual ==
    pc = "html" =>
        /\ Len(MessageIds(html)) = Len(data.messages)
        /\ Len(TypeIds(html)) = Len(data.types)
        /\ \A i, j \in 1..Len(data.messages) :
              (MessageIds(html)[i] = MessageIds(html)[j])
                  <=> SameUpToSeparators(data.messages[i].name, data.messages[j].name)
        /\ \A i, j \in 1..Len(data.types) :
              (TypeIds(html)[i] = TypeIds(html)[j])
                  <=> SameUpToSeparators(data.types[i].name, data.types[j].name)
        /\ \A i \in 1..Len(data.messages) : \A j \in 1..Len(data.types) :
              MessageIds(html)[i] # TypeIds(html)[j]

\* Messages "a.a" and "a_a" are both emitted with id "msg_a_a".
C4_Witness ==
    /\ pc = "html"
    /\ Len(data.messages) = 2
    /\ data.messages[1].name = <<"a", ".", "a">>
    /\ data.messages[2].name = <<"a", "_", "a">>
    /\ MessageIds(html) = << <<"msg", "_", "a", "_", "a">>, <<"msg", "_", "a", "_", "a">> >>
    /\ data.types # <<>>

Tokens(h) == {h[i] : i \in 1..Len(h)}

\* C5 as claimed: whatever the model holds, the HTML output has an element
\* for each of the four anchors the table of contents links to.
C5_FixedAnchorsAlwaysExist ==
    pc = "html" =>
        /\ {"<li><a href=\"#section-services\">Services</a></li>", "<li><a href=\"#section-operations\">Operations</a></li>", "<li><a href=\"#section-messages\">Messages</a></li>", "<li><a href=\"#section-types\">Types</a></li>"} \subseteq Tokens(html)
        /\ {"<div class=\"section\" id=\"section-services\"><h2>Services</h2>", "<div class=\"section\" id=\"section-operations\"><h2>Operations</h2>", SEC_MESSAGES, SEC_TYPES} \subseteq Tokens(html)

\* C6: every message entry is wrapped in an element whose id is
\* _make_anchor_id("msg", name) and every type entry (complex type or simple
\* element) in one whose id is _make_anchor_id("type", name), entry by entry
\* in model order.
C6_EntriesWrappedWithAnchorId ==
    pc = "html" =>
        /\ Entries(html, MSG_OPEN) =
              [i \in 1..Len(data.messages) |->
                  [id      |-> _make_anchor_id(PREFIX_MSG, data.messages[i].name),
                   heading |-> data.messages[i].name]]
        /\ Entries(html, TYPE_OPEN) =
              [i \in 1..Len(data.types) |->
                  [id      |-> _make_anchor_id(PREFIX_TYPE, data.types[i].name),
                   heading |-> data.types[i].name]]

\* A message, a complex type and a simple element are all rendered.
C6_Witness ==
    /\ pc = "html"
    /\ data.messages # <<>>
    /\ \E i, j \in 1..Len(data.types) :
          data.types[i].type = "complexType" /\ data.types[j].type = "element"
    /\ \E k \in 1..Len(TypeIds(html)) : TypeIds(html)[k] = <<"type", "_", "a", "_", "a">>

\* The text after the last ':' of an attribute value (all of it without ':').
AfterLastColon(q) ==
    CHOOSE t \in {SubSeq(q, i, Len(q)) : i \in 1..(Len(q) + 1)} :
        /\ ~HasColon(t)
        /\ Len(t) = Len(q) \/ q[Len(q) - Len(t)] = ":"

\* The rows of the part tables, in output order.
PartRows(h) ==
    Blocks(SubSeq(h, Pos(h, SEC_MESSAGES),
                  IF SEC_TYPES \in Tokens(h) THEN Pos(h, SEC_TYPES) ELSE Len(h)),
           "<tr><td>", {"</td></tr>"})

\* The wsdl:part elements of the document, in document order.
DocParts == _get_elements(root, "wsdl:part")

PortTypeOps(d) ==
    Flatten([i \in 1..Len(d.port_types) |->
        [j \in 1..Len(d.port_types[i].operations) |->
            [pt |-> d.port_types[i], op |-> d.port_types[i].operations[j]]]])

\* The SOAPAction value shown in each operation block of the HTML output
\* ("" when the block shows none).
HtmlShownSoapActions(h) ==
    LET blocks == Blocks(h, "<div class=\"operation\"><h4>", {DIV_CLOSE})
        Shown(b) == IF SOAP_OPEN \in Tokens(b)
                    THEN Until(b, Pos(b, SOAP_OPEN) + 1, {SPAN_P_CLOSE})
                    ELSE <<>>
    IN  [k \in 1..Len(blocks) |-> Shown(blocks[k])]

\* The SOAPAction values shown for each operation of the text output.
TextShownSoapActions(t) ==
    LET P == Positions([i \in 1..Len(t) |-> t[i][1]], "\n  o ")
        OpLines(i) == Until([k \in 1..Len(t) |-> t[k][1]], i + 1,
                            {"\n  o ", "\n[portType] ", NL_RULE})
        Shown(i) == LET n == Len(OpLines(i))
                        idx == SelectSeq([k \in 1..n |-> i + k],
                                         LAMBDA k : t[k][1] = "    SOAPAction: ")
                    IN  [k \in 1..Len(idx) |-> Tail(t[idx[k]])]
    IN  [k \in 1..Len(P) |-> Shown(P[k])]

\* Binding operation j of binding i matches operation po: the binding's type
\* is the port type's name and the operation names are equal.
Matches(d, po, i, j) ==
    /\ d.bindings[i].type = po.pt.name
    /\ d.bindings[i].operations[j].name = po.op.name

\* The (binding, operation) index pairs of the model.
BindOpIndex(d) ==
    UNION {{<<i, j>> : j \in 1..Len(d.bindings[i].operations)} : i \in 1..Len(d.bindings)}

Before(x, y) == x[1] < y[1] \/ (x[1] = y[1] /\ x[2] < y[2])

\* The soapAction values that the first matching binding, in list order, gives
\* to the operation.  "Matching" is read both ways: a binding of the port type
\* with an operation of that name, or such a binding whose operation also has
\* a non-empty soapAction.
FirstBindingSoapActions(d, po) ==
    LET hits == {x \in BindOpIndex(d) : Matches(d, po, x[1], x[2])}
        full == {x \in hits : d.bindings[x[1]].operations[x[2]].soapAction # <<>>}
        OfFirst(S) == {d.bindings[x[1]].operations[x[2]].soapAction :
                          x \in {y \in S : \A z \in S : y[1] <= z[1]}}
    IN  OfFirst(hits) \cup OfFirst(full)

ActionHits(d, po) ==
    {x \in BindOpIndex(d) :
        Matches(d, po, x[1], x[2]) /\ d.bindings[x[1]].operations[x[2]].soapAction # <<>>}

DocPorts == _get_elements(root, "wsdl:port")
DataPorts == Flatten([i \in 1..Len(data.services) |-> data.services[i].ports])

\* The location of the first child of e with the given tag ("" without the
\* attribute).
FirstLocation(e, tag) ==
    LET i == CHOOSE i \in 1..Len(e.kids) :
                 e.kids[i].tag = tag /\ \A j \in 1..(i-1) : e.kids[j].tag # tag
    IN  IF "location" \in DOMAIN e.kids[i].attrs THEN e.kids[i].attrs.location ELSE <<>>

HasKid(e, tag) == \E i \in 1..Len(e.kids) : e.kids[i].tag = tag

\* C9: a port with a SOAP 1.1 and a SOAP 1.2 address gets the SOAP 1.2
\* location; with one of them that one's location; with neither "".
C9_Soap12AddressWins ==
    pc = "parsed" =>
        /\ Len(DataPorts) = Len(DocPorts)
        /\ \A k \in 1..Len(DocPorts) :
              DataPorts[k].address =
                  (IF HasKid(DocPorts[k], "soap12:address")
                   THEN FirstLocation(DocPorts[k], "soap12:address")
                   ELSE IF HasKid(DocPorts[k], "soap:address")
                   THEN FirstLocation(DocPorts[k], "soap:address")
                   ELSE <<>>)

\* A port with SOAP 1.1 location "a" and SOAP 1.2 location "A" gets "A".
C9_Witness ==
    /\ pc = "parsed"
    /\ \E k \in 1..Len(DocPorts) :
          /\ HasKid(DocPorts[k], "soap:address")
          /\ FirstLocation(DocPorts[k], "soap:address") = <<"a">>
          /\ HasKid(DocPorts[k], "soap12:address")
          /\ FirstLocation(DocPorts[k], "soap12:address") = <<"A">>
          /\ DataPorts[k].address = <<"A">>

\* The operations of the document's bindings and the extracted ones.
DocBindingOps ==
    LET bs == _get_elements(root, "wsdl:binding")
    IN  Flatten([i \in 1..Len(bs) |-> XPathChild(bs[i], "wsdl:operation")])
DataBindingOps == Flatten([i \in 1..Len(data.bindings) |-> data.bindings[i].operations])

FirstSoapAction(e, tag) ==
    LET i == CHOOSE i \in 1..Len(e.kids) :
                 e.kids[i].tag = tag /\ \A j \in 1..(i-1) : e.kids[j].tag # tag
    IN  IF "soapAction" \in DOMAIN e.kids[i].attrs THEN e.kids[i].attrs.soapAction ELSE <<>>

\* C10 as claimed: the soapAction of a binding operation is merged from its
\* SOAP 1.1 and SOAP 1.2 operation elements, SOAP 1.2 winning, so that an
\* operation with only a SOAP 1.2 operation child gets that soapAction.
C10_Soap12OperationMerged ==
    pc = "parsed" =>
        /\ Len(DataBindingOps) = Len(DocBindingOps)
        /\ \A k \in 1..Len(DocBindingOps) :
              DataBindingOps[k].soapAction =
                  (IF HasKid(DocBindingOps[k], "soap12:operation")
                   THEN FirstSoapAction(DocBindingOps[k], "soap12:operation")
                   ELSE IF HasKid(DocBindingOps[k], "soap:operation")
                   THEN FirstSoapAction(DocBindingOps[k], "soap:operation")
                   ELSE <<>>)

(***************************************************************************)
(* The document read by position: a path is the sequence of child indices  *)
(* leading from the root to an element; document order is the              *)
(* lexicographic order of paths, an ancestor before its descendants.       *)
(***************************************************************************)
\* The paths, from e, of the elements tagged tag in e (e itself included).
RECURSIVE TagPathsIn(_, _)
TagPathsIn(e, tag) ==
    (IF e.tag = tag THEN {<<>>} ELSE {})
    \cup UNION {{<<i>> \o p : p \in TagPathsIn(e.kids[i], tag)} : i \in 1..Len(e.kids)}

RECURSIVE At(_, _)
At(e, p) == IF p = <<>> THEN e ELSE At(e.kids[Head(p)], Tail(p))

Parent(p) == SubSeq(p, 1, Len(p) - 1)
IsPrefix(p, q) == Len(p) <= Len(q) /\ SubSeq(q, 1, Len(p)) = p
Under(p, q) == IsPrefix(p, q) /\ p # q

\* p comes before q in document order.
DocBefore(p, q) ==
    \/ Under(p, q)
    \/ \E k \in 1..Len(p) :
          /\ k <= Len(q)
          /\ SubSeq(p, 1, k - 1) = SubSeq(q, 1, k - 1)
          /\ p[k] < q[k]

\* The paths of a set, as a sequence in document order.
InDocOrder(S) ==
    LET before == [p \in S |-> Cardinality({q \in S : DocBefore(q, p)})]
    IN  [i \in 1..Cardinality(S) |-> CHOOSE p \in S : before[p] = i - 1]

TagPaths(tag) == TagPathsIn(root, tag)
TagPathsUnder(tag, a) == {a \o p : p \in TagPathsIn(At(root, a), tag)} \ {a}

\* The schemas directly under a wsdl:types element.
SchemaPaths ==
    {p \in TagPaths("xsd:schema") : p # <<>> /\ At(root, Parent(p)).tag = "wsdl:types"}
\* The complexType elements inside those schemas, at any depth.
ComplexTypePaths == UNION {TagPathsUnder("xsd:complexType", s) : s \in SchemaPaths}
\* The element declarations directly under those schemas.
TopElementPaths ==
    UNION {{p \in TagPathsUnder("xsd:element", s) : Parent(p) = s} : s \in SchemaPaths}

HasNameAttr(p) == "name" \in DOMAIN At(root, p).attrs
HasNonEmptyName(p) == HasNameAttr(p) /\ At(root, p).attrs.name # <<>>

\* The four element counts the extracted lists are compared with.
C11_ListCounts ==
    /\ Len(data.services) = Cardinality(TagPaths("wsdl:service"))
    /\ Len(data.bindings) = Cardinality(TagPaths("wsdl:binding"))
    /\ Len(data.port_types) = Cardinality(TagPaths("wsdl:portType"))
    /\ Len(data.messages) = Cardinality(TagPaths("wsdl:message"))

\* C11 as claimed: the extracted lists have as many entries as the document
\* has service, binding, portType and message elements, and the type list has
\* as many entries as there are named complexTypes plus named top-level
\* elements.  "Named" is read either as carrying a name attribute or as
\* carrying a non-empty one, the same way for both kinds.
C11_TypeCountIsNamedDeclarations ==
    pc = "parsed" =>
        /\ C11_ListCounts
        /\ \/ Len(data.types) =
                  Cardinality({p \in ComplexTypePaths : HasNameAttr(p)})
                  + Cardinality({p \in TopElementPaths : HasNameAttr(p)})
           \/ Len(data.types) =
                  Cardinality({p \in ComplexTypePaths : HasNonEmptyName(p)})
                  + Cardinality({p \in TopElementPaths : HasNonEmptyName(p)})

\* C11 (amended): the four list counts are as claimed; the type list has one
\* entry for every complexType carrying a name attribute, empty or not,
\* inside a schema of the types section, plus one for every element directly
\* under such a schema whose name is non-empty.
C11_TypeCountIsSelectedDeclarations ==
    pc = "parsed" =>
        /\ C11_ListCounts
        /\ Len(data.types) =
               Cardinality({p \in ComplexTypePaths : HasNameAttr(p)})
               + Cardinality({p \in TopElementPaths : HasNonEmptyName(p)})

\* A schema with a complexType and a top-level element both named "": the
\* complexType is the only entry.
C11_Witness ==
    /\ pc = "parsed"
    /\ \E p \in ComplexTypePaths : HasNameAttr(p) /\ ~HasNonEmptyName(p)
    /\ \E p \in TopElementPaths : HasNameAttr(p) /\ ~HasNonEmptyName(p)
    /\ Len(data.types) = 1
    /\ data.types[1].name = <<>>

NamesAt(ps) == [i \in 1..Len(ps) |-> Get(At(root, ps[i]), "name")]
NamesIn(list) == [i \in 1..Len(list) |-> list[i].name]

\* The entries of list are the elements tagged tag in document order, and the
\* entries under key of each are its descendants tagged subtag in document
\* order (compared by name; absent names compare as None).
NestedInDocOrder(list, tag, key, subtag) ==
    LET ps == InDocOrder(TagPaths(tag))
    IN  /\ NamesIn(list) = NamesAt(ps)
        /\ \A i \in 1..Len(ps) :
              NamesIn(list[i][key]) = NamesAt(InDocOrder(TagPathsUnder(subtag, ps[i])))

\* The declarations a type entry is made from.
SelectedComplexTypes == {p \in ComplexTypePaths : HasNameAttr(p)}
SelectedTopElements == {p \in TopElementPaths : HasNonEmptyName(p)}

\* The element declarations the fields of the entry for declaration p come
\* from: those under a complexType; for a top-level element those under its
\* first complexType child.
FieldPaths(p) ==
    IF At(root, p).tag = "xsd:complexType" THEN TagPathsUnder("xsd:element", p)
    ELSE LET inner == {q \in TagPathsUnder("xsd:complexType", p) : Parent(q) = p}
         IN  IF inner = {} THEN {}
             ELSE TagPathsUnder("xsd:element", InDocOrder(inner)[1])

\* The type entries are made from the declarations ps, in that order, each
\* with its fields in document order.
TypesFollow(ps) ==
    /\ NamesIn(data.types) = NamesAt(ps)
    /\ \A i \in 1..Len(ps) :
          data.types[i].type = "complexType" =>
              NamesIn(data.types[i].elements) = NamesAt(InDocOrder(FieldPaths(ps[i])))

C12_ListsInDocOrder ==
    /\ NestedInDocOrder(data.services, "wsdl:service", "ports", "wsdl:port")
    /\ NestedInDocOrder(data.bindings, "wsdl:binding", "operations", "wsdl:operation")
    /\ NestedInDocOrder(data.port_types, "wsdl:portType", "operations", "wsdl:operation")
    /\ NestedInDocOrder(data.messages, "wsdl:message", "parts", "wsdl:part")

\* C12 as claimed: every extracted list is in document order of its source
\* elements, duplicates kept; the type entries follow the document order of
\* the complexType and element declarations they are made from.
C12_TypesInDocOrder ==
    pc = "parsed" =>
        /\ C12_ListsInDocOrder
        /\ TypesFollow(InDocOrder(SelectedComplexTypes \cup SelectedTopElements))

\* The order of parse_types: schema by schema, the complexTypes made into
\* entries in document order, then the top-level elements made into entries
\* in document order.
TypeSourceOrder ==
    LET ss == InDocOrder(SchemaPaths)
        cts == SelectedComplexTypes
        tops == SelectedTopElements
    IN  Flatten([k \in 1..Len(ss) |->
            InDocOrder({p \in cts : Under(ss[k], p)})
            \o InDocOrder({p \in tops : Parent(p) = ss[k]})])

\* For each type entry, in list order, the element declarations its fields
\* are made from, in document order.
TypeFieldSources ==
    LET src == TypeSourceOrder
    IN  [i \in 1..Len(src) |-> InDocOrder(FieldPaths(src[i]))]

\* C12 (amended): services, ports, bindings, binding operations, port types,
\* operations, messages, parts and fields are in document order, duplicates
\* kept; the type entries are grouped by schema in document order, and within
\* a schema the entries of the named complexTypes (document order) come before
\* the entries of the top-level elements (document order).
C12_TypesGroupedBySchemaAndKind ==
    pc = "parsed" =>
        /\ C12_ListsInDocOrder
        /\ TypesFollow(TypeSourceOrder)

\* A schema declares a top-level element before a named complexType; the
\* entry of the complexType is listed first.
C12_Witness ==
    /\ pc = "parsed"
    /\ Len(data.types) = 2
    /\ \E p \in SelectedTopElements : \E q \in SelectedComplexTypes :
          /\ Parent(p) = Parent(q)
          /\ DocBefore(p, q)
          /\ Get(At(root, p), "name") # Get(At(root, q), "name")
          /\ data.types[1].name = Get(At(root, q), "name")
          /\ data.types[2].name = Get(At(root, p), "name")

\* The extracted parts, in list order.
DataParts == Flatten([i \in 1..Len(data.messages) |-> data.messages[i].parts])

StoredRef(e, a) == IF a \in DOMAIN e.attrs THEN AfterLastColon(e.attrs[a]) ELSE <<>>

FirstUnder(tag, p) == InDocOrder(TagPathsUnder(tag, p))[1]

\* The message reference of the input or output of the operation at p.
MessageRef(tag, p) ==
    IF TagPathsUnder(tag, p) = {} THEN <<>>
    ELSE StoredRef(At(root, FirstUnder(tag, p)), "message")

\* The operations of the port types, by position in the document.
PortTypeOpPaths ==
    LET pts == InDocOrder(TagPaths("wsdl:portType"))
    IN  Flatten([i \in 1..Len(pts) |-> InDocOrder(TagPathsUnder("wsdl:operation", pts[i]))])

DocBindings == _get_elements(root, "wsdl:binding")

\* Every reference held by the extracted model.
StoredRefs ==
    LET ports == DataPorts
        ops == PortTypeOps(data)
        parts == DataParts
    IN
    {ports[k].binding : k \in 1..Len(ports)}
    \cup {data.bindings[i].type : i \in 1..Len(data.bindings)}
    \cup UNION {{ops[k].op.input, ops[k].op.output} : k \in 1..Len(ops)}
    \cup UNION {{parts[k].element, parts[k].type} : k \in 1..Len(parts)}
    \cup UNION {IF data.types[i].type = "element" THEN {data.types[i].dataType}
                ELSE {data.types[i].elements[j].type :
                          j \in 1..Len(data.types[i].elements)} :
                    i \in 1..Len(data.types)}

\* C14: every stored reference is the text after the last ':' of its source
\* attribute, the empty string when the attribute (or the element carrying
\* it) is absent; it holds no ':' and _strip_namespace leaves it unchanged.
C14_ReferencesStripped ==
    pc = "parsed" =>
        /\ LET docPorts == DocPorts
               ports == DataPorts
           IN  /\ Len(ports) = Len(docPorts)
               /\ \A k \in 1..Len(docPorts) :
                     ports[k].binding = StoredRef(docPorts[k], "binding")
        /\ LET docBindings == DocBindings
           IN  /\ Len(data.bindings) = Len(docBindings)
               /\ \A i \in 1..Len(docBindings) :
                     data.bindings[i].type = StoredRef(docBindings[i], "type")
        /\ LET paths == PortTypeOpPaths
               ops == PortTypeOps(data)
           IN  /\ Len(ops) = Len(paths)
               /\ \A k \in 1..Len(paths) :
                     /\ ops[k].op.input = MessageRef("wsdl:input", paths[k])
                     /\ ops[k].op.output = MessageRef("wsdl:output", paths[k])
        /\ LET docParts == DocParts
               parts == DataParts
           IN  /\ Len(parts) = Len(docParts)
               /\ \A k \in 1..Len(docParts) :
                     /\ parts[k].element = StoredRef(docParts[k], "element")
                     /\ parts[k].type = StoredRef(docParts[k], "type")
        /\ LET src == TypeSourceOrder
               fss == TypeFieldSources
           IN  /\ Len(data.types) = Len(src)
               /\ \A i \in 1..Len(src) :
                     IF data.types[i].type = "element"
                     THEN data.types[i].dataType = StoredRef(At(root, src[i]), "type")
                     ELSE /\ Len(data.types[i].elements) = Len(fss[i])
                          /\ \A j \in 1..Len(fss[i]) :
                                data.types[i].elements[j].type
                                    = StoredRef(At(root, fss[i][j]), "type")
        /\ \A v \in StoredRefs : ~HasColon(v) /\ _strip_namespace(v) = v

\* Every reference attribute of the document is "a:a:A" and is stored as "A".
C14_Witness ==
    /\ pc = "parsed"
    /\ root = ReferenceDoc(<<"a", ":", "a", ":", "A">>)
    /\ DataPorts[1].binding = <<"A">>
    /\ data.bindings[1].type = <<"A">>
    /\ data.port_types[1].operations[1].input = <<"A">>
    /\ data.messages[1].parts[2].type = <<"A">>
    /\ \E i \in 1..Len(data.types) :
          data.types[i].type = "element" /\ data.types[i].dataType = <<"A">>
    /\ StoredRefs = {<<"A">>, <<"a">>, <<>>}

\* The value of attribute a of element e, or dflt without the attribute.
AttrOr(e, a, dflt) == IF a \in DOMAIN e.attrs THEN e.attrs[a] ELSE dflt

\* The fields of the type entries, each with the element declaration it is
\* made from and the declaration its entry is made from.
FieldsWithSources ==
    LET src == TypeSourceOrder
        fss == TypeFieldSources
    IN  UNION {{[field |-> data.types[i].elements[j],
                 source |-> At(root, fss[i][j]),
                 owner |-> At(root, src[i])] : j \in 1..Len(fss[i])} :
                  i \in {k \in 1..Len(src) : data.types[k].type = "complexType"}}

\* Every complex type entry has as many fields as its source has element
\* declarations.
FieldCounts ==
    LET fss == TypeFieldSources
    IN  /\ Len(data.types) = Len(fss)
        /\ \A i \in 1..Len(fss) :
              data.types[i].type = "complexType" =>
                  Len(data.types[i].elements) = Len(fss[i])

\* C15: every field of a complex type entry, named or promoted, has the
\* minOccurs, maxOccurs and nillable of its element declaration, and "1",
\* "1" and "false" where the declaration has no such attribute.
C15_OccursAndNillableDefaults ==
    pc = "parsed" =>
        /\ FieldCounts
        /\ \A x \in FieldsWithSources :
              /\ x.field.minOccurs = AttrOr(x.source, "minOccurs", <<"1">>)
              /\ x.field.maxOccurs = AttrOr(x.source, "maxOccurs", <<"1">>)
              /\ x.field.nillable
                     = AttrOr(x.source, "nillable", <<"f", "a", "l", "s", "e">>)

\* A field of a promoted element without the three attributes gets "1", "1",
\* "false"; a field of a named complexType with minOccurs "0", maxOccurs "u"
\* and nillable "true" keeps them.
C15_Witness ==
    /\ pc = "parsed"
    /\ \E x \in FieldsWithSources :
          /\ x.owner.tag = "xsd:element"
          /\ DOMAIN x.source.attrs \cap {"minOccurs", "maxOccurs", "nillable"} = {}
          /\ x.field.minOccurs = <<"1">>
          /\ x.field.maxOccurs = <<"1">>
          /\ x.field.nillable = <<"f", "a", "l", "s", "e">>
    /\ \E x \in FieldsWithSources :
          /\ x.owner.tag = "xsd:complexType"
          /\ x.field.minOccurs = <<"0">>
          /\ x.field.maxOccurs = <<"u">>
          /\ x.field.nillable = <<"t", "r", "u", "e">>

\* The complexType children of the element at p.
InnerComplexTypes(p) == {q \in TagPathsUnder("xsd:complexType", p) : Parent(q) = p}

TopElementEntries ==
    LET src == TypeSourceOrder
    IN  {data.types[i] : i \in {k \in 1..Len(src) : At(root, src[k]).tag = "xsd:element"}}

BindingPaths == InDocOrder(TagPaths("wsdl:binding"))

\* Attribute a of the first soap:binding (SOAP 1.1) element under the binding
\* at p: dflt without the attribute, none without such an element.
SoapBindingAttr(p, a, dflt, none) ==
    IF TagPathsUnder("soap:binding", p) = {} THEN none
    ELSE AttrOr(At(root, FirstUnder("soap:binding", p)), a, dflt)

\* C17 as claimed: style and transport are the attributes of the binding's
\* SOAP binding element, each the empty string when the attribute or the
\* element is absent.
C17_StyleAndTransportEmptyWhenAbsent ==
    pc = "parsed" =>
        /\ Len(data.bindings) = Len(BindingPaths)
        /\ \A i \in 1..Len(BindingPaths) :
              /\ data.bindings[i].style
                     = SoapBindingAttr(BindingPaths[i], "style", <<>>, <<>>)
              /\ data.bindings[i].transport
                     = SoapBindingAttr(BindingPaths[i], "transport", <<>>, <<>>)

\* C17 (amended): with a soap:binding element the style is its style
\* attribute, "document" when it has none, and the transport is its transport
\* attribute, "" when it has none; without a soap:binding element both are "".
\* Only the SOAP 1.1 element is read.
C17_StyleDefaultsToDocument ==
    pc = "parsed" =>
        /\ Len(data.bindings) = Len(BindingPaths)
        /\ \A i \in 1..Len(BindingPaths) :
              /\ data.bindings[i].style
                     = SoapBindingAttr(BindingPaths[i], "style",
                                       <<"d", "o", "c", "u", "m", "e", "n", "t">>, <<>>)
              /\ data.bindings[i].transport
                     = SoapBindingAttr(BindingPaths[i], "transport", <<>>, <<>>)

\* A soap:binding without attributes gives style "document" and transport "";
\* a binding with a soap12:binding element only gives "" and "".
C17_Witness ==
    /\ pc = "parsed"
    /\ Len(BindingPaths) = 2
    /\ TagPathsUnder("soap:binding", BindingPaths[1]) # {}
    /\ At(root, FirstUnder("soap:binding", BindingPaths[1])).attrs = NoAttrs
    /\ data.bindings[1].style = <<"d", "o", "c", "u", "m", "e", "n", "t">>
    /\ data.bindings[1].transport = <<>>
    /\ TagPathsUnder("soap12:binding", BindingPaths[2]) # {}
    /\ data.bindings[2].style = <<>>
    /\ data.bindings[2].transport = <<>>

\* The ports, binding operations by position in the document, list order.
PortPaths ==
    LET ss == InDocOrder(TagPaths("wsdl:service"))
    IN  Flatten([i \in 1..Len(ss) |-> InDocOrder(TagPathsUnder("wsdl:port", ss[i]))])
BindingOpPaths ==
    Flatten([i \in 1..Len(BindingPaths) |->
                InDocOrder(TagPathsUnder("wsdl:operation", BindingPaths[i]))])
PartPaths ==
    LET ms == InDocOrder(TagPaths("wsdl:message"))
    IN  Flatten([i \in 1..Len(ms) |-> InDocOrder(TagPathsUnder("wsdl:part", ms[i]))])

Lacks(p, a) == a \notin DOMAIN At(root, p).attrs
Without(p, tag) == TagPathsUnder(tag, p) = {}

\* C18: every document is parsed by all five passes, whatever optional part
\* is left out, and what is left out is stored as its default: "" for a
\* missing port binding, address, SOAP binding, soap operation,
\* documentation, input, output, part element or type and field type, "1" for
\* a missing minOccurs or maxOccurs, "false" for a missing nillable, and the
\* empty list for missing ports, operations, parts, fields and types section.
C18_DefaultsForMissingParts ==
    pc = "parsed" =>
        /\ C11_ListCounts
        /\ LET paths == PortPaths
               ports == DataPorts
           IN  /\ Len(ports) = Len(paths)
               /\ \A k \in 1..Len(paths) :
                     /\ Lacks(paths[k], "binding") => ports[k].binding = <<>>
                     /\ (Without(paths[k], "soap:address")
                           /\ Without(paths[k], "soap12:address"))
                        => ports[k].address = <<>>
        /\ LET paths == BindingPaths
           IN  \A i \in 1..Len(paths) :
                  /\ Lacks(paths[i], "type") => data.bindings[i].type = <<>>
                  /\ Without(paths[i], "soap:binding")
                     => data.bindings[i].style = <<>> /\ data.bindings[i].transport = <<>>
                  /\ Without(paths[i], "wsdl:operation")
                     => data.bindings[i].operations = <<>>
        /\ LET paths == BindingOpPaths
               ops == DataBindingOps
           IN  /\ Len(ops) = Len(paths)
               /\ \A k \in 1..Len(paths) :
                     Without(paths[k], "soap:operation") => ops[k].soapAction = <<>>
        /\ LET paths == PortTypeOpPaths
               ops == PortTypeOps(data)
           IN  /\ Len(ops) = Len(paths)
               /\ \A k \in 1..Len(paths) :
                     /\ Without(paths[k], "wsdl:documentation")
                        => ops[k].op.documentation = <<>>
                     /\ Without(paths[k], "wsdl:input") => ops[k].op.input = <<>>
                     /\ Without(paths[k], "wsdl:output") => ops[k].op.output = <<>>
        /\ LET paths == PartPaths
               parts == DataParts
           IN  /\ Len(parts) = Len(paths)
               /\ \A k \in 1..Len(paths) :
                     /\ Lacks(paths[k], "element") => parts[k].element = <<>>
                     /\ Lacks(paths[k], "type") => parts[k].type = <<>>
        /\ LET paths == InDocOrder(TagPaths("wsdl:service"))
           IN  \A i \in 1..Len(paths) :
                  Without(paths[i], "wsdl:port") => data.services[i].ports = <<>>
        /\ LET paths == InDocOrder(TagPaths("wsdl:message"))
           IN  \A i \in 1..Len(paths) :
                  Without(paths[i], "wsdl:part") => data.messages[i].parts = <<>>
        /\ TagPaths("wsdl:types") = {} => data.types = <<>>
        /\ LET src == TypeSourceOrder
               fss == TypeFieldSources
           IN  /\ Len(data.types) = Len(src)
               /\ \A i \in 1..Len(src) :
                     /\ (data.types[i].type = "element" /\ Lacks(src[i], "type"))
                        => data.types[i].dataType = <<>>
                     /\ (data.types[i].type = "complexType" /\ fss[i] = <<>>)
                        => data.types[i].elements = <<>>
        /\ FieldCounts
        /\ \A x \in FieldsWithSources :
              /\ "type" \notin DOMAIN x.source.attrs => x.field.type = <<>>
              /\ "minOccurs" \notin DOMAIN x.source.attrs => x.field.minOccurs = <<"1">>
              /\ "maxOccurs" \notin DOMAIN x.source.attrs => x.field.maxOccurs = <<"1">>
              /\ "nillable" \notin DOMAIN x.source.attrs
                 => x.field.nillable = <<"f", "a", "l", "s", "e">>
              /\ ~HasKid(x.source, "xsd:annotation") => x.field.documentation = <<>>

\* A document without types section whose port has neither binding nor
\* address and whose operation has neither documentation, input nor output.
C18_Witness ==
    /\ pc = "parsed"
    /\ TagPaths("wsdl:types") = {}
    /\ data.types = <<>>
    /\ \E k \in 1..Len(PortPaths) :
          /\ Lacks(PortPaths[k], "binding")
          /\ Without(PortPaths[k], "soap:address")
          /\ Without(PortPaths[k], "soap12:address")
          /\ DataPorts[k].binding = <<>>
          /\ DataPorts[k].address = <<>>
    /\ \E k \in 1..Len(PortTypeOpPaths) :
          /\ At(root, PortTypeOpPaths[k]).kids = <<>>
          /\ PortTypeOps(data)[k].op.documentation = <<>>
          /\ PortTypeOps(data)[k].op.input = <<>>
          /\ PortTypeOps(data)[k].op.output = <<>>

\* The positions of the calls named op among the events.
Calls(op) == {i \in 1..Len(events) : events[i].op = op}

\* Nothing after loading has been done: no extraction pass has run, no
\* renderer has been called, nothing has been written or printed.
NothingDone ==
    /\ data = NoData
    /\ html = <<>>
    /\ text = <<>>
    /\ ~written
    /\ \A op \in {"extract", "generate_html_output", "format_text_output",
                  "write_text", "print"} : Calls(op) = {}

\* C19: once load_wsdl has failed (False returned after a network failure,
\* malformed XML, a missing file or any other error) no extraction pass runs,
\* parse returns None, neither renderer is called and no output is written,
\* and main exits, with status 1.
C19_FailedLoadExitsBeforeRendering ==
    /\ [](ret = "False" => NothingDone /\ exit_status \in {Running, 1})
    /\ [](exit_status = 1 => ret = "False" /\ NothingDone)
    /\ (ret = "False" ~> (pc = "exited" /\ exit_status = 1))

\* main has exited with status 1 after the third connection error.
C19_Witness ==
    /\ pc = "exited"
    /\ exit_status = 1
    /\ ret = "False"
    /\ last_error = "ConnectionError"
    /\ Cardinality(Calls("get")) = 3
    /\ NothingDone

\* For a URL source: at most 3 fetches; every wait lasts 1 second, follows a
\* fetch and is followed by the next fetch (a wait that is the last event is
\* still inside load_wsdl, on its way to the next fetch); no exception leaves
\* load_wsdl.
C20_BoundedRetry ==
    wsdl_source = "url" =>
        /\ Cardinality(Calls("get")) <= 3
        /\ \A i \in Calls("sleep") :
              /\ events[i].arg = 1
              /\ i > 1 /\ events[i - 1].op = "get"
              /\ IF i < Len(events) THEN events[i + 1].op = "get"
                 ELSE ret = "None" /\ pc = "get"
        /\ ret \in {"None", "True", "False"}
        /\ pc # "propagated"

\* C20: for a URL source load_wsdl fetches at most 3 times, waits 1 second
\* between two consecutive fetches and nowhere else, and under every sequence
\* of fetch outcomes returns True or False; no exception reaches its caller.
C20_BoundedRetryAndReturn ==
    /\ []C20_BoundedRetry
    /\ (wsdl_source = "url" ~> ret \in {"True", "False"})

\* Three connection errors: fetch, wait, fetch, wait, fetch, then False.
C20_Witness ==
    /\ wsdl_source = "url"
    /\ ret = "False"
    /\ [i \in 1..Len(events) |-> events[i].op]
           = <<"get", "sleep", "get", "sleep", "get">>

\* The attempts that ended in a connection error.
ConnectionErrors == {i \in 1..Len(outcomes) : outcomes[i] = "ConnectionError"}

\* C21: for a URL source every attempt but the last has ended in a connection
\* error, and so has the last one while a further attempt is still to come;
\* False after a connection error is returned only when all 3 attempts have
\* ended in one; any other failure ends the load on its attempt, with False;
\* and load_wsdl has returned True, with root and target_namespace set from
\* the document, iff the last attempt succeeded after connection errors only.
C21_RetryOnlyAfterConnectionError ==
    wsdl_source = "url" =>
        LET n == Len(outcomes)
        IN  /\ n = Cardinality(Calls("get"))
            /\ \A i \in 1..(n - 1) : i \in ConnectionErrors
            /\ (n >= 1 /\ pc \in {"get", "sleep"}) => n \in ConnectionErrors
            /\ (ret = "False" /\ n \in ConnectionErrors) =>
                   (n = 3 /\ ConnectionErrors = 1..3)
            /\ (n >= 1 /\ outcomes[n] \notin {"ok", "ConnectionError"}) =>
                   (ret = "False" /\ pc \notin {"get", "sleep"})
            /\ (ret = "True") <=>
                   (n >= 1 /\ outcomes[n] = "ok" /\ ConnectionErrors = 1..(n - 1))
            /\ ret = "True" =>
                   /\ root \in LoadDocs
                   /\ target_namespace = AttrOr(root, "targetNamespace", <<>>)
            /\ ret # "True" => (root = NoRoot /\ target_namespace = NoneStr)

\* The third attempt succeeds after two connection errors, on a document
\* that names its target namespace.
C21_Witness ==
    /\ wsdl_source = "url"
    /\ outcomes = <<"ConnectionError", "ConnectionError", "ok">>
    /\ ret = "True"
    /\ target_namespace = <<"a", ".", "A">>

HtmlHasSoapField(h) ==
    LET blocks == Blocks(h, "<div class=\"operation\"><h4>", {DIV_CLOSE})
    IN  [k \in 1..Len(blocks) |-> SOAP_OPEN \in Tokens(blocks[k])]

\* The bindings of the model whose type is the name of no port type.
UnmatchedBindings(d) ==
    {i \in 1..Len(d.bindings) :
        \A j \in 1..Len(d.port_types) : d.bindings[i].type # d.port_types[j].name}

\* C23: each renderer shows a SOAPAction field for a port-type operation iff
\* some binding whose type is the port type's name has an operation of that
\* name with a non-empty soapAction, and a SOAPAction field appears nowhere
\* else; a binding operation without a soap:operation child is stored with an
\* empty soapAction and so, like a binding that matches no port type, adds
\* no field.
C23_SoapActionShownIffMatched ==
    LET pos == PortTypeOps(data)
        Hit(k) == ActionHits(data, pos[k]) # {}
    IN  /\ pc # "start" =>
              LET docOps == DocBindingOps
                  dataOps == DataBindingOps
              IN  /\ Len(dataOps) = Len(docOps)
                  /\ \A k \in 1..Len(docOps) :
                        ~HasKid(docOps[k], "soap:operation") => dataOps[k].soapAction = <<>>
        /\ pc = "html" =>
              LET has == HtmlHasSoapField(html)
              IN  /\ Len(has) = Len(pos)
                  /\ \A k \in 1..Len(pos) : has[k] <=> Hit(k)
                  /\ Len(Positions(html, SOAP_OPEN))
                        = Cardinality({k \in 1..Len(pos) : Hit(k)})
        /\ pc = "text" =>
              LET shown == TextShownSoapActions(text)
                  heads == [i \in 1..Len(text) |-> text[i][1]]
              IN  /\ Len(shown) = Len(pos)
                  /\ \A k \in 1..Len(pos) : (shown[k] # <<>>) <=> Hit(k)
                  /\ (\A k \in 1..Len(pos) : ~Hit(k)) => "    SOAPAction: " \notin Tokens(heads)

\* A binding of a type that no port type is named after has an operation with
\* a SOAP action, named like an operation of a port type; the HTML output
\* shows no SOAPAction field.
C23_Witness ==
    /\ pc = "html"
    /\ Len(PortTypeOps(data)) >= 1
    /\ \E i \in UnmatchedBindings(data) :
          \E j \in 1..Len(data.bindings[i].operations) :
              /\ data.bindings[i].operations[j].soapAction # <<>>
              /\ \E k \in 1..Len(PortTypeOps(data)) :
                    PortTypeOps(data)[k].op.name = data.bindings[i].operations[j].name
    /\ SOAP_OPEN \notin Tokens(html)

\* The order_id the statement of the upsert being run has used: the one
\* given, or the value it has drawn from the sequence.
UsedOrderId ==
    IF "order_id" \in DOMAIN call.arg THEN call.arg.order_id ELSE seq - 1

\* The rows of t with order_id id.
RowsOf(t, id) == {r \in t : r.order_id = id}

SessionCalls(op) == {i \in 1..Len(session_calls) : session_calls[i] = op}

\* C25: until the with block has been left the session is not closed; once
\* it has been left the session has been closed exactly once, as the last
\* call.  When the body has raised, the calls after the raise are rollback and
\* then close, and the exception that leaves is the one the body raised.  When
\* the body has ended normally there is no rollback and no commit but the one
\* in the body of upsert or delete.  Without a commit that succeeded the
\* committed rows are those at the call, and after the close nothing
\* uncommitted is left.
C25_SessionScopeClosesOnce ==
    LET n == Len(session_calls)
    IN  /\ pc \notin {"idle", "done"} => SessionCalls("close") = {}
        /\ pc = "done" =>
              /\ SessionCalls("close") = {n}
              /\ pending = orders
              /\ (\A i \in SessionCalls("commit") : session_calls[i + 1] = raised)
                    => orders = orders_before
              /\ IF raised # "None"
                 THEN /\ n >= 3
                      /\ session_calls[n - 2] = raised
                      /\ SessionCalls(raised) = {n - 2}
                      /\ SessionCalls("rollback") = {n - 1}
                 ELSE /\ SessionCalls("rollback") = {}
                      /\ Cardinality(SessionCalls("commit"))
                            = (IF call.fn = "select" THEN 0 ELSE 1)
                      /\ \A i \in SessionCalls("commit") :
                            /\ i < n - 1 \/ call.fn = "delete"
                            /\ session_calls[i - 1] \in {"execute", "delete"}

\* The commit of upsert fails after its statement has run: the session is
\* rolled back and closed, the exception leaves, and the row is not there.
C25_Witness ==
    /\ pc = "done"
    /\ raised = "OperationalError"
    /\ session_calls = <<"Session", "execute", "commit", "OperationalError",
                         "rollback", "close">>
    /\ orders = orders_before

\* The lines the reader has appended so far, in append order.
Appended ==
    LET n == IF reader.pc \in {"acquire", "locked"} THEN Len(stdout) - 1 ELSE Len(stdout)
    IN  [k \in 1..n |-> [n |-> k, text |-> stdout[k]]]

\* C26: as long as the full buffer has discarded no line, the lines returned
\* so far by the calls of get_and_clear_log_lines followed by the lines still
\* in the buffer are the lines appended, each once and in append order; and
\* between the copy and the clear the buffer is the copy.
C26_EachLineReturnedOnce ==
    (pc # "new" /\ evicted = 0) =>
        /\ lines_returned \o log_buffer = Appended
        /\ pc = "clear" => lines = log_buffer

\* The reader has a line in hand and waits for the lock while
\* get_and_clear_log_lines is between its copy and its clear, after an
\* earlier call has returned lines.
C26_Witness ==
    /\ pc = "clear"
    /\ reader.pc = "acquire"
    /\ lines_returned # <<>>
    /\ lines # <<>>
    /\ evicted = 0

\* C27 as claimed: start ends by raising only when no line with STARTED_LOG
\* has been appended to the buffer up to then; once the reader has appended
\* such a line during the polls, start returns normally.
C27_StartedLineMeansReturn ==
    [][(pc \in {"poll", "scan"} /\ pc' \in {"TimeoutError", "RuntimeError"}) =>
          \A k \in 1..Len(Appended) : Appended[k].text # STARTED_LOG]_vars

\* C30 as claimed, in its weakest reading: no append of the reader lands while
\* an iteration over the buffer is under way in the thread that called start.
C30_NeverIteratedWhileAppending ==
    pc = "scan" => ~it.mutated

\* Every message and every type entry of the model has a name.
AllNamed(d) ==
    /\ \A i \in 1..Len(d.messages) : d.messages[i].name # NoneStr
    /\ \A i \in 1..Len(d.types) : d.types[i].name # NoneStr

\* C28: in the HTML output of a model whose messages and type entries all
\* have names, the target of every link to a message is the id of a message
\* element of the same output and the target of every link to a type is the
\* id of a type element of the same output.
C28_NoDanglingEntityLink ==
    (pc = "html" /\ AllNamed(data)) =>
        LET links == Links(html)
            msgIds == MessageIds(html)
            typeIds == TypeIds(html)
        IN  \A k \in 1..Len(links) :
               LET href == links[k].href
               IN  /\ href[1] \in {"msg", "type"}
                   /\ href[1] = "msg" => \E i \in 1..Len(msgIds) : msgIds[i] = href
                   /\ href[1] = "type" => \E i \in 1..Len(typeIds) : typeIds[i] = href

\* The output links to a message and to a type entry that is a top-level
\* element.
C28_Witness ==
    /\ pc = "html"
    /\ AllNamed(data)
    /\ \E k \in 1..Len(Links(html)) : Links(html)[k].href[1] = "msg"
    /\ \E k \in 1..Len(Links(html)) :
          /\ Links(html)[k].href[1] = "type"
          /\ \E i \in 1..Len(data.types) :
                /\ data.types[i].type = "element"
                /\ data.types[i].name = Links(html)[k].text

\* C29 as claimed: for every port-type operation the SOAPAction values of
\* the text output are the SOAPAction value of the HTML output of the same
\* model (none in the one when none in the other; a value repeated in the text
\* output counts once).
C29_RenderersAgreeOnSoapActions ==
    pc = "html" =>
        LET inText == TextShownSoapActions(format_text_output(data))
            inHtml == HtmlShownSoapActions(html)
        IN  /\ Len(inText) = Len(inHtml)
            /\ \A k \in 1..Len(inHtml) :
                  {inText[k][l] : l \in 1..Len(inText[k])}
                      = (IF inHtml[k] = <<>> THEN {} ELSE {inHtml[k]})

====
